---- MODULE Spec2Model ----
(***************************************************************************)
(* Model of the goluna interpreter core: the chained Environment           *)
(* (environment.go), the runtime values (values.go), the recursive-descent *)
(* parser (parser.go) over the token streams of tokenizer.go, and the      *)
(* tree-walking evaluator (interpreter.go), driven by the host loop of     *)
(* main.go.                                                                *)
(*                                                                         *)
(* Environments live in a store `envs`, a sequence indexed by their        *)
(* address; a *Environment is an index into it and NilEnv is the nil       *)
(* pointer.  Evaluate is the big-step function of interpreter.go: it takes *)
(* a node, an environment address and the store, and returns the value,    *)
(* the error and the store it leaves.  Arrays and objects are cells of     *)
(* `heap`, so that a store through one reference shows through every       *)
(* other.  A parse function takes the token stream and a position and      *)
(* returns the node, the error and the position after it.                  *)
(***************************************************************************)
EXTENDS Integers, Sequences, FiniteSets, TLC

VARIABLES
    envs,     \* the store of Environment records, by address
    heap,     \* the store of array and object cells, by address
    result,   \* (value, error) the last host operation returned
    trace,    \* the evaluator's steps during the last host operation
    op,       \* the last host operation and its inputs
    lines     \* number of host operations performed

vars == <<envs, heap, result, trace, op, lines>>

-----------------------------------------------------------------------------
(* Bounds *)

MaxLines == 4      \* inputs the host evaluates against one long-lived root
MaxEnvs == 3       \* environments the host creates directly (SpecEnv)
MaxFuel == 8       \* loop iterations plus calls within one evaluation
MaxSrc == 2        \* source texts the host evaluates against one root (SpecSrc)
MaxNumeral == 12   \* greatest number written as a numeral in a source text
MaxInput == 4      \* characters of a text given to Tokenize (SpecTok)
MaxPieces == 2     \* placeholders and plain parts of an interpolated string

-----------------------------------------------------------------------------
(* values.go: the tagged runtime values *)

NULL_TYPE == "null"
UNDEF_TYPE == "undef"
VOID_TYPE == "void"
NUMBER_TYPE == "number"
BOOLEAN_TYPE == "boolean"
STRING_TYPE == "string"
FUNCTION_TYPE == "function"
NATIVE_FN_TYPE == "native-fn"
ARRAY_TYPE == "array"
OBJECT_TYPE == "object"
RETURN_TYPE == "return"

\* A Go nil RuntimeValue (no constructor makes one).
Nil == [tag |-> "nil"]

MakeNull == [tag |-> NULL_TYPE]
MakeUndefined == [tag |-> UNDEF_TYPE]
MakeVoid == [tag |-> VOID_TYPE]
MakeNumber(value) == [tag |-> NUMBER_TYPE, Value |-> value]
MakeBool(value) == [tag |-> BOOLEAN_TYPE, Value |-> value]
MakeString(value) == [tag |-> STRING_TYPE, Value |-> value]
\* MakeArray allocates: the *ArrayValue it returns is the address of the new
\* cell, Len(hp) + 1, and ArrayValue(ptr) is that pointer as a value.
MakeArray(hp, elements) == Append(hp, [Elements |-> elements])
ArrayValue(ptr) == [tag |-> ARRAY_TYPE, ptr |-> ptr]
MakeObject(hp, properties) == Append(hp, [Properties |-> properties])
ObjectValue(ptr) == [tag |-> OBJECT_TYPE, ptr |-> ptr]
MakeFunction(name, parameters, body, env, export, anonymous) ==
    [tag |-> FUNCTION_TYPE, Name |-> name, Parameters |-> parameters,
     Body |-> body, DeclarationEnv |-> env, Export |-> export,
     Anonymous |-> anonymous]
MakeNativeFunction(name) == [tag |-> NATIVE_FN_TYPE, Name |-> name]
\* The `call` prototype of a function value (values.go:242-274), bound to
\* the function f it was read from.
FunctionPrototype(name, f) == [tag |-> NATIVE_FN_TYPE, Name |-> name, Self |-> f]
MakeReturn(value) == [tag |-> RETURN_TYPE, Value |-> value]

RECURSIVE IsTruthy(_, _)
IsTruthy(v, hp) ==
    CASE v.tag = NUMBER_TYPE -> v.Value # 0
      [] v.tag = BOOLEAN_TYPE -> v.Value
      [] v.tag = STRING_TYPE -> v.Value # ""
      [] v.tag = OBJECT_TYPE -> DOMAIN hp[v.ptr].Properties # {}
      [] v.tag = ARRAY_TYPE -> Len(hp[v.ptr].Elements) > 0
      [] v.tag = FUNCTION_TYPE -> TRUE
      [] v.tag = NATIVE_FN_TYPE -> TRUE
      [] v.tag = RETURN_TYPE -> IsTruthy(v.Value, hp)
      [] OTHER -> FALSE

-----------------------------------------------------------------------------
(* environment.go *)

NilEnv == 0

EmptyMap == [n \in {} |-> Nil]

NewEnvironmentRecord(parent) ==
    [parent |-> parent, variables |-> EmptyMap, constants |-> {}]

NewEnvironment_SelfParent(es, parent) ==
    Append(es, NewEnvironmentRecord(Len(es) + 1))

\* NewEnvironment allocates: the new record's address is Len(es) + 1.
NewEnvironment(es, parent) == Append(es, NewEnvironmentRecord(parent))

DeclareVar_ClearsMarker(es, e, name, value, isConstant) ==
    [es EXCEPT ![e].variables = (name :> value) @@ @,
               ![e].constants = IF isConstant THEN @ \cup {name} ELSE @ \ {name}]

DeclareVar(es, e, name, value, isConstant) ==
    [es EXCEPT ![e].variables = (name :> value) @@ @,
               ![e].constants = IF isConstant THEN @ \cup {name} ELSE @]

\* The walk `for current != nil { ...; current = current.parent }`.  An
\* acyclic chain in a store of Len(es) records visits at most Len(es) of
\* them; a walk that needs more is on a cycle and never ends in the code:
\* Diverged stands for that outcome.
Diverged == -1

RECURSIVE FindHolder(_, _, _, _)
FindHolder(es, current, name, budget) ==
    IF current = NilEnv THEN NilEnv
    ELSE IF budget = 0 THEN Diverged
    ELSE IF name \in DOMAIN es[current].variables THEN current
    ELSE FindHolder(es, es[current].parent, name, budget - 1)

AssignVar_NoConstCheck(es, e, name, value) ==
    LET h == FindHolder(es, e, name, Len(es))
    IN  IF h > NilEnv
        THEN [es EXCEPT ![h].variables = (name :> value) @@ @]
        ELSE [es EXCEPT ![e].variables = (name :> value) @@ @]

AssignVar_Shadowing(es, e, name, value) ==
    IF name \in es[e].constants THEN es
    ELSE [es EXCEPT ![e].variables = (name :> value) @@ @]

AssignVar(es, e, name, value) ==
    IF name \in es[e].constants THEN es
    ELSE LET h == FindHolder(es, e, name, Len(es))
         IN  IF h > NilEnv
             THEN [es EXCEPT ![h].variables = (name :> value) @@ @]
             ELSE [es EXCEPT ![e].variables = (name :> value) @@ @]

LookupVar_NilWhenAbsent(es, e, name) ==
    LET h == FindHolder(es, e, name, Len(es))
    IN  IF h > NilEnv THEN es[h].variables[name] ELSE Nil

LookupVar(es, e, name) ==
    LET h == FindHolder(es, e, name, Len(es))
    IN  IF h > NilEnv THEN es[h].variables[name] ELSE MakeUndefined

HasVar(es, e, name) == FindHolder(es, e, name, Len(es)) > NilEnv

-----------------------------------------------------------------------------
(* ast.go: the node variants the evaluator is given *)

NoNode == [kind |-> "nil"]

Program(body) == [kind |-> "Program", Body |-> body]
Identifier(value) == [kind |-> "Identifier", Value |-> value]
NumericLiteral(value) == [kind |-> "NumericLiteral", Value |-> value]
StringLiteral(value) == [kind |-> "StringLiteral", Value |-> value]
BooleanLiteral(value) == [kind |-> "BooleanLiteral", Value |-> value]
UndefinedLiteral == [kind |-> "UndefinedLiteral"]
NullLiteral == [kind |-> "NullLiteral"]
ArrayLiteral(elements) == [kind |-> "ArrayLiteral", Elements |-> elements]
Property(key, value) == [Key |-> key, Value |-> value]
ObjectLiteral(properties) == [kind |-> "ObjectLiteral", Properties |-> properties]
UnaryExpr(value, operator) ==
    [kind |-> "UnaryExpr", Value |-> value, Operator |-> operator]
MemberExpr(object, property, computed) ==
    [kind |-> "MemberExpr", Object |-> object, Property |-> property,
     Computed |-> computed]
TernaryExpr(condition, consequent, alternate) ==
    [kind |-> "TernaryExpr", Condition |-> condition, Consequent |-> consequent,
     Alternate |-> alternate]
EqualityExpr(left, operator, right) ==
    [kind |-> "EqualityExpr", Left |-> left, Right |-> right, Operator |-> operator]
LogicalExpr(left, operator, right) ==
    [kind |-> "LogicalExpr", Left |-> left, Right |-> right, Operator |-> operator]
BinaryExpr(left, operator, right) ==
    [kind |-> "BinaryExpr", Left |-> left, Right |-> right, Operator |-> operator]
InequalityExpr(left, operator, right) ==
    [kind |-> "InequalityExpr", Left |-> left, Right |-> right, Operator |-> operator]
AssignmentExpr(assigne, value) ==
    [kind |-> "AssignmentExpr", Assigne |-> assigne, Value |-> value]
ActionAssignmentExpr(assigne, action, value) ==
    [kind |-> "ActionAssignmentExpr", Assigne |-> assigne, Value |-> value,
     Action |-> [Name |-> action, Args |-> <<>>]]
CallExpr(caller, args) == [kind |-> "CallExpr", Caller |-> caller, Args |-> args]
Parameter(name, defaultValue) == [Name |-> name, DefaultValue |-> defaultValue]
FunctionDeclaration(name, parameters, body) ==
    [kind |-> "FunctionDeclaration", Name |-> name, Parameters |-> parameters,
     Body |-> body, Export |-> FALSE]
IfStatement(test, consequent, alternate) ==
    [kind |-> "IfStatement", Test |-> test, Consequent |-> consequent,
     Alternate |-> alternate]
WhileStatement(test, consequent) ==
    [kind |-> "WhileStatement", Test |-> test, Consequent |-> consequent]
ForStatement(declaration, test, increaser, body) ==
    [kind |-> "ForStatement", Declaration |-> declaration, Test |-> test,
     Increaser |-> increaser, Body |-> body]
ReturnExpr(value) == [kind |-> "ReturnExpr", Value |-> value]
UseStatement(path) == [kind |-> "UseStatement", Path |-> path]

-----------------------------------------------------------------------------
(* interpreter.go *)

\* What one evaluation threads through its calls: the environment store, the
\* heap, the steps taken so far, the remaining fuel and the call being
\* executed (the address of its call environment; NilEnv outside any call),
\* and the order in which this run ranges over maps (none given: <<>>).
NewStore(es, hp) ==
    [envs |-> es, heap |-> hp, trace |-> <<>>, fuel |-> MaxFuel, call |-> NilEnv,
     order |-> <<>>]

Log(st, k, v) ==
    [st EXCEPT !.trace = Append(@, [k |-> k, call |-> st.call, v |-> v])]

\* (value, nil), (nil, err); ret marks that the enclosing Go function left
\* its statement loop through `return val, nil`.
Ok(v, st) == [val |-> v, err |-> "", st |-> st, ret |-> FALSE]
Returned(v, st) == [val |-> v, err |-> "", st |-> st, ret |-> TRUE]
Fail(msg, st) == [val |-> Nil, err |-> msg, st |-> st, ret |-> FALSE]

OutOfFuel == "evaluation does not end within MaxFuel"

\* A Go run-time panic.  Nothing in the repository recovers from one, so it
\* unwinds every evaluator unchanged and ends the host process.
PanicIndex == "panic: runtime error: index out of range"
PanicAssert == "panic: interface conversion: RuntimeValue is not *NumberValue"
IsPanic(err) == err \in {PanicIndex, PanicAssert}

\* The decimal text of a whole number (fmt.Sprint, and the text of an INT
\* token) and its inverse (strconv.ParseFloat) on the numerals up to
\* MaxNumeral.
Digits == <<"0", "1", "2", "3", "4", "5", "6", "7", "8", "9">>

RECURSIVE Sprint(_)
Sprint(n) ==
    IF n < 0 THEN "-" \o Sprint(0 - n)
    ELSE IF n < 10 THEN Digits[n + 1]
    ELSE Sprint(n \div 10) \o Digits[(n % 10) + 1]

ParseFloat(text) == CHOOSE n \in 0..MaxNumeral : Sprint(n) = text

RECURSIVE Evaluate(_, _, _)

RECURSIVE evaluateProgramLoop(_, _, _, _, _)
evaluateProgramLoop(body, i, e, st, lastEvaluated) ==
    IF i > Len(body) THEN Ok(lastEvaluated, st)
    ELSE LET r == Evaluate(body[i], e, Log(st, "stmt", MakeVoid))
         IN  IF r.err # "" THEN r
             ELSE evaluateProgramLoop(body, i + 1, e, r.st,
                      IF r.val.tag # "nil" THEN r.val ELSE lastEvaluated)

evaluateProgram(program, e, st) ==
    evaluateProgramLoop(program.Body, 1, e, st, MakeVoid)

evaluateIdentifier(node, e, st) ==
    LET myVar == LookupVar(st.envs, e, node.Value)
    IN  IF myVar.tag = "nil"
        THEN Fail("undefined variable", st)
        ELSE Ok(myVar, st)

\* The loop of evaluateArrayLiteral, and the argument loop of
\* evaluateCallExpression: each expression in order, first error wins.
RECURSIVE evaluateElements(_, _, _, _, _)
evaluateElements(elems, i, e, st, acc) ==
    IF i > Len(elems) THEN Ok(acc, st)
    ELSE LET r == Evaluate(elems[i], e, st)
         IN  IF r.err # "" THEN r
             ELSE evaluateElements(elems, i + 1, e, r.st, Append(acc, r.val))

evaluateArrayLiteral(node, e, st) ==
    LET r == evaluateElements(node.Elements, 1, e, st, <<>>)
    IN  IF r.err # "" THEN r
        ELSE Ok(ArrayValue(Len(r.st.heap) + 1),
                [r.st EXCEPT !.heap = MakeArray(@, r.val)])

\* String interpolation.  A text with `{` is made of at most MaxPieces
\* pieces, each a placeholder `{a}`, `{b}` or the plain part `x`; the texts
\* of the other string literals contain no `{`.
Placeholder(name) == "{" \o name \o "}"
Pieces == {Placeholder("a"), Placeholder("b"), "x"}
PieceSeqs == UNION {[1..n -> Pieces] : n \in 0..MaxPieces}

RECURSIVE Join(_)
Join(seq) == IF seq = <<>> THEN "" ELSE Head(seq) \o Join(Tail(seq))

\* strings.Contains(text, "{"), strings.Contains(text, placeholder) and
\* strings.ReplaceAll(text, placeholder, replacement) on those texts.
ContainsBrace(text) ==
    \E seq \in PieceSeqs :
        Join(seq) = text /\ \E n \in DOMAIN seq : seq[n] # "x"
Contains(text, placeholder) ==
    \E seq \in PieceSeqs :
        Join(seq) = text /\ \E n \in DOMAIN seq : seq[n] = placeholder
ReplaceAll(text, placeholder, replacement) ==
    LET seq == CHOOSE seq \in PieceSeqs : Join(seq) = text
    IN  Join([n \in DOMAIN seq |->
                 IF seq[n] = placeholder THEN replacement ELSE seq[n]])

\* String() of the scalar values (values.go:37-105).
ValueString(v) ==
    CASE v.tag = NULL_TYPE -> "null"
      [] v.tag = UNDEF_TYPE -> "undef"
      [] v.tag = NUMBER_TYPE -> Sprint(v.Value)
      [] v.tag = BOOLEAN_TYPE -> IF v.Value THEN "true" ELSE "false"
      [] OTHER -> ""

\* `for name, val := range env.variables { ... }`, visiting the names in
\* the order `order` from its i-th on.  Go leaves the order of a map range
\* unspecified: the order is an input of the evaluation.
RECURSIVE evaluateStringLiteralLoop(_, _, _, _)
evaluateStringLiteralLoop(built, order, i, variables) ==
    IF i > Len(order) THEN built
    ELSE IF order[i] \in DOMAIN variables
            /\ Contains(built, Placeholder(order[i]))
    THEN LET val == variables[order[i]]
         IN  evaluateStringLiteralLoop(
                 ReplaceAll(built, Placeholder(order[i]),
                            IF val.tag = STRING_TYPE THEN val.Value
                            ELSE ValueString(val)),
                 order, i + 1, variables)
    ELSE evaluateStringLiteralLoop(built, order, i + 1, variables)

\* An evaluation that is given no order does not interpolate in this model.
evaluateStringLiteral(node, e, st) ==
    IF ContainsBrace(node.Value)
    THEN IF st.order = <<>> THEN Fail("map order outside the model", st)
         ELSE Ok(MakeString(evaluateStringLiteralLoop(
                     node.Value, st.order, 1, st.envs[e].variables)), st)
    ELSE Ok(MakeString(node.Value), st)

\* properties[prop.Key] = value, in order: a later key overwrites.
RECURSIVE evaluateProperties(_, _, _, _, _)
evaluateProperties(props, i, e, st, acc) ==
    IF i > Len(props) THEN Ok(acc, st)
    ELSE LET r == Evaluate(props[i].Value, e, st)
         IN  IF r.err # "" THEN r
             ELSE evaluateProperties(props, i + 1, e, r.st,
                                     (props[i].Key :> r.val) @@ acc)

evaluateObjectLiteral(node, e, st) ==
    LET r == evaluateProperties(node.Properties, 1, e, st, EmptyMap)
    IN  IF r.err # "" THEN r
        ELSE Ok(ObjectValue(Len(r.st.heap) + 1),
                [r.st EXCEPT !.heap = MakeObject(@, r.val)])

\* Whole numbers with + - *, and + on two strings; the other operators and
\* the text of a non-string operand of + are outside this model.
evaluateBinaryOperation(left, right, operator, st) ==
    IF left.tag = NUMBER_TYPE /\ right.tag = NUMBER_TYPE
          /\ operator \in {"+", "-", "*"}
    THEN CASE operator = "+" -> Ok(MakeNumber(left.Value + right.Value), st)
           [] operator = "-" -> Ok(MakeNumber(left.Value - right.Value), st)
           [] operator = "*" -> Ok(MakeNumber(left.Value * right.Value), st)
    ELSE IF operator = "+" /\ left.tag = STRING_TYPE /\ right.tag = STRING_TYPE
    THEN Ok(MakeString(left.Value \o right.Value), st)
    ELSE Fail("unsupported binary operation", st)

evaluateBinaryExpression(node, e, st) ==
    LET l == Evaluate(node.Left, e, st)
    IN  IF l.err # "" THEN l
        ELSE LET r == Evaluate(node.Right, e, l.st)
             IN  IF r.err # "" THEN r
                 ELSE evaluateBinaryOperation(l.val, r.val, node.Operator, r.st)

evaluateInequalityExpression(node, e, st) ==
    LET l == Evaluate(node.Left, e, st)
    IN  IF l.err # "" THEN l
        ELSE LET r == Evaluate(node.Right, e, l.st)
             IN  IF r.err # "" THEN r
                 ELSE IF l.val.tag # NUMBER_TYPE \/ r.val.tag # NUMBER_TYPE
                 THEN Fail("cannot compare non-numeric values", r.st)
                 ELSE CASE node.Operator = "<" ->
                               Ok(MakeBool(l.val.Value < r.val.Value), r.st)
                        [] node.Operator = ">" ->
                               Ok(MakeBool(l.val.Value > r.val.Value), r.st)
                        [] node.Operator = "<=" ->
                               Ok(MakeBool(l.val.Value <= r.val.Value), r.st)
                        [] node.Operator = ">=" ->
                               Ok(MakeBool(l.val.Value >= r.val.Value), r.st)
                        [] OTHER -> Fail("unsupported inequality operator", r.st)

isEqual_SameValue(left, right) == left = right

isEqual(left, right) ==
    IF left.tag # right.tag THEN FALSE
    ELSE CASE left.tag \in {NUMBER_TYPE, BOOLEAN_TYPE, STRING_TYPE} ->
                  left.Value = right.Value
           [] left.tag \in {NULL_TYPE, UNDEF_TYPE, VOID_TYPE} -> TRUE
           [] OTHER -> FALSE

evaluateEqualityExpression(node, e, st) ==
    LET l == Evaluate(node.Left, e, st)
    IN  IF l.err # "" THEN l
        ELSE LET r == Evaluate(node.Right, e, l.st)
             IN  IF r.err # "" THEN r
                 ELSE CASE node.Operator = "==" ->
                               Ok(MakeBool(isEqual(l.val, r.val)), r.st)
                        [] node.Operator = "!=" ->
                               Ok(MakeBool(~isEqual(l.val, r.val)), r.st)
                        [] OTHER -> Fail("unsupported equality operator", r.st)

evaluateTernaryExpression(node, e, st) ==
    LET c == Evaluate(node.Condition, e, st)
    IN  IF c.err # "" THEN c
        ELSE IF IsTruthy(c.val, c.st.heap)
        THEN Evaluate(node.Consequent, e, c.st)
        ELSE Evaluate(node.Alternate, e, c.st)

evaluateLogicalExpression(node, e, st) ==
    LET l == Evaluate(node.Left, e, st)
    IN  IF l.err # "" THEN l
        ELSE CASE node.Operator = "&&" ->
                      IF ~IsTruthy(l.val, l.st.heap) THEN l
                      ELSE Evaluate(node.Right, e, l.st)
               [] node.Operator = "||" ->
                      IF IsTruthy(l.val, l.st.heap) THEN l
                      ELSE Evaluate(node.Right, e, l.st)
               [] OTHER -> Fail("unsupported logical operator", l.st)

StepVariable_AlwaysNewValue(node, e, st, step, postfix, notIdent, notNumber) ==
    IF node.Value.kind # "Identifier" THEN Fail(notIdent, st)
    ELSE LET val == LookupVar(st.envs, e, node.Value.Value)
         IN  IF val.tag = "nil" \/ val.tag # NUMBER_TYPE THEN Fail(notNumber, st)
             ELSE LET newVal == val.Value + step
                  IN  Ok(MakeNumber(newVal),
                         [st EXCEPT !.envs =
                             AssignVar(@, e, node.Value.Value, MakeNumber(newVal))])

\* The four increment / decrement forms share one shape: look the
\* identifier up, require a number, AssignVar the stepped number, and hand
\* back the old number (postfix) or the new one (prefix).
StepVariable(node, e, st, step, postfix, notIdent, notNumber) ==
    IF node.Value.kind # "Identifier" THEN Fail(notIdent, st)
    ELSE LET val == LookupVar(st.envs, e, node.Value.Value)
         IN  IF val.tag = "nil" \/ val.tag # NUMBER_TYPE THEN Fail(notNumber, st)
             ELSE LET newVal == val.Value + step
                  IN  Ok(MakeNumber(IF postfix THEN val.Value ELSE newVal),
                         [st EXCEPT !.envs =
                             AssignVar(@, e, node.Value.Value, MakeNumber(newVal))])

evaluateUnaryExpression(node, e, st) ==
    CASE node.Operator = "++_post" ->
             StepVariable(node, e, st, 1, TRUE,
                          "postfix operator only valid on identifiers",
                          "cannot apply ++ to non-number variable")
      [] node.Operator = "--_post" ->
             StepVariable(node, e, st, -1, TRUE,
                          "postfix operator only valid on identifiers",
                          "cannot apply -- to non-number variable")
      [] node.Operator = "!" ->
             LET r == Evaluate(node.Value, e, st)
             IN  IF r.err # "" THEN r
                 ELSE Ok(MakeBool(~IsTruthy(r.val, r.st.heap)), r.st)
      [] node.Operator = "-" ->
             LET r == Evaluate(node.Value, e, st)
             IN  IF r.err # "" THEN r
                 ELSE IF r.val.tag = NUMBER_TYPE
                 THEN Ok(MakeNumber(0 - r.val.Value), r.st)
                 ELSE Fail("cannot negate non-number value", r.st)
      [] node.Operator = "+" ->
             LET r == Evaluate(node.Value, e, st)
             IN  IF r.err # "" THEN r
                 ELSE IF r.val.tag = NUMBER_TYPE THEN r
                 ELSE Fail("cannot apply unary plus to non-number value", r.st)
      [] node.Operator = "++" ->
             StepVariable(node, e, st, 1, FALSE,
                          "prefix ++ only valid on identifiers",
                          "cannot increment non-number variable")
      [] node.Operator = "--" ->
             StepVariable(node, e, st, -1, FALSE,
                          "prefix -- only valid on identifiers",
                          "cannot decrement non-number variable")
      [] OTHER -> Fail("unsupported unary operator", st)

\* The member branch of evaluateAssignmentExpression
\* (interpreter.go:291-330): object, then property, then value, then the
\* store into the cell the object value points to.  A property written as
\* an identifier is the string of its name, computed or not.  The two type
\* assertions and the slice index are unchecked in the code: they panic.
evaluateMemberAssignment(node, e, st) ==
    LET memberExpr == node.Assigne
        o == Evaluate(memberExpr.Object, e, st)
    IN  IF o.err # "" THEN o
        ELSE LET p == IF memberExpr.Property.kind = "Identifier"
                      THEN Ok(MakeString(memberExpr.Property.Value), o.st)
                      ELSE Evaluate(memberExpr.Property, e, o.st)
             IN  IF p.err # "" THEN p
                 ELSE LET v == Evaluate(node.Value, e, p.st)
                      IN  IF v.err # "" THEN v
                          ELSE CASE o.val.tag = OBJECT_TYPE ->
                                   IF p.val.tag \notin {STRING_TYPE, NUMBER_TYPE}
                                   THEN Fail(PanicAssert, v.st)
                                   ELSE LET key == IF p.val.tag = STRING_TYPE
                                                   THEN p.val.Value
                                                   ELSE Sprint(p.val.Value)
                                        IN  Ok(v.val,
                                               [v.st EXCEPT !.heap[o.val.ptr].Properties =
                                                   (key :> v.val) @@ @])
                                 [] o.val.tag = ARRAY_TYPE ->
                                   IF p.val.tag # NUMBER_TYPE
                                   THEN Fail(PanicAssert, v.st)
                                   ELSE LET index == p.val.Value
                                            len == Len(v.st.heap[o.val.ptr].Elements)
                                        IN  IF index < 0 \/ index >= len
                                            THEN Fail(PanicIndex, v.st)
                                            ELSE Ok(v.val,
                                                    [v.st EXCEPT
                                                       !.heap[o.val.ptr].Elements[index + 1] =
                                                           v.val])
                                 [] OTHER -> Fail("cannot assign to non-object", v.st)

\* strconv.Atoi on the canonical numerals; Atoi fails on every other key of
\* this model's inputs.
IsNumeral(key) == \E n \in (0 - MaxNumeral)..MaxNumeral : Sprint(n) = key
Atoi(key) == CHOOSE n \in (0 - MaxNumeral)..MaxNumeral : Sprint(n) = key

\* `for _, protoFn := range *obj.Prototypes() { if Name == key ... }`: a
\* function value has the one prototype `call`; the prototypes of the other
\* types are native functions outside this model and are not looked up by
\* its inputs.
LookupPrototype(object, key) ==
    IF object.tag = FUNCTION_TYPE /\ key = "call"
    THEN FunctionPrototype("call", object)
    ELSE MakeUndefined

evaluateMemberExpression(node, e, st) ==
    LET o == Evaluate(node.Object, e, st)
    IN  IF o.err # "" THEN o
        ELSE LET k == IF node.Computed
                      THEN LET prop == Evaluate(node.Property, e, o.st)
                           IN  IF prop.err # "" THEN prop
                               ELSE IF prop.val.tag = STRING_TYPE
                               THEN Ok(prop.val.Value, prop.st)
                               ELSE IF prop.val.tag = NUMBER_TYPE
                               THEN Ok(Sprint(prop.val.Value), prop.st)
                               ELSE Fail("invalid property key type", prop.st)
                      ELSE IF node.Property.kind = "Identifier"
                      THEN Ok(node.Property.Value, o.st)
                      ELSE Fail("invalid property access", o.st)
             IN  IF k.err # "" THEN k
                 ELSE CASE o.val.tag = ARRAY_TYPE ->
                               LET elements == k.st.heap[o.val.ptr].Elements
                               IN  IF IsNumeral(k.val) /\ Atoi(k.val) >= 0
                                      /\ Atoi(k.val) < Len(elements)
                                   THEN Ok(elements[Atoi(k.val) + 1], k.st)
                                   ELSE Ok(LookupPrototype(o.val, k.val), k.st)
                        [] o.val.tag = OBJECT_TYPE ->
                               LET properties == k.st.heap[o.val.ptr].Properties
                               IN  IF k.val \in DOMAIN properties
                                   THEN Ok(properties[k.val], k.st)
                                   ELSE Ok(LookupPrototype(o.val, k.val), k.st)
                        [] OTHER -> Ok(LookupPrototype(o.val, k.val), k.st)

evaluateAssignmentExpression(node, e, st) ==
    IF node.Assigne.kind = "Identifier"
    THEN LET r == Evaluate(node.Value, e, st)
         IN  IF r.err # "" THEN r
             ELSE IF HasVar(r.st.envs, e, node.Assigne.Value)
             THEN Ok(r.val, [r.st EXCEPT !.envs =
                                 AssignVar(@, e, node.Assigne.Value, r.val)])
             ELSE Ok(r.val, [r.st EXCEPT !.envs =
                                 DeclareVar(@, e, node.Assigne.Value, r.val, FALSE)])
    ELSE IF node.Assigne.kind = "MemberExpr"
    THEN evaluateMemberAssignment(node, e, st)
    ELSE Fail("invalid assignment target", st)

evaluateActionAssignmentExpression(node, e, st) ==
    IF node.Assigne.kind = "Identifier"
    THEN LET r == Evaluate(node.Value, e, st)
         IN  IF r.err # "" THEN r
             ELSE CASE node.Action.Name = "const" ->
                           Ok(r.val, [r.st EXCEPT !.envs =
                               DeclareVar(@, e, node.Assigne.Value, r.val, TRUE)])
                    [] node.Action.Name \in {"var", "out"} ->
                           Ok(r.val, [r.st EXCEPT !.envs =
                               DeclareVar(@, e, node.Assigne.Value, r.val, FALSE)])
                    [] OTHER -> Fail("unsupported action", r.st)
    ELSE Fail("invalid assignment target", st)

evaluateFunctionDeclaration(node, e, st) ==
    LET anonymous == node.Name = ""
        fn == MakeFunction(node.Name, node.Parameters, node.Body, e,
                           node.Export, anonymous)
    IN  IF ~anonymous
        THEN Ok(fn, [st EXCEPT !.envs = DeclareVar(@, e, node.Name, fn, TRUE)])
        ELSE Ok(fn, st)

\* `for i, param := range f.Parameters { callEnv.DeclareVar(param.Name,
\* args[i], false) }`, from parameter i on.
RECURSIVE DeclareParameters(_, _, _, _, _)
DeclareParameters(f, args, i, callEnv, es) ==
    IF i > Len(f.Parameters) THEN es
    ELSE DeclareParameters(f, args, i + 1, callEnv,
             DeclareVar(es, callEnv, f.Parameters[i].Name, args[i], FALSE))

\* The body loop of the prototype (values.go:259-268), from statement i: it
\* stops at the first return signal and keeps no other value.
RECURSIVE FunctionCallPrototypeBody(_, _, _, _)
FunctionCallPrototypeBody(body, i, callEnv, st) ==
    IF i > Len(body) THEN Ok(MakeVoid, st)
    ELSE LET r == Evaluate(body[i], callEnv, Log(st, "stmt", MakeVoid))
         IN  IF r.err # "" THEN r
             ELSE IF r.val.tag # "nil" /\ r.val.tag = RETURN_TYPE
             THEN Returned(r.val.Value, r.st)
             ELSE FunctionCallPrototypeBody(body, i + 1, callEnv, r.st)

FunctionCallPrototype(f, args, st) ==
    IF Len(args) < Len(f.Parameters)
    THEN Fail("not enough arguments to call function", st)
    ELSE IF Len(args) > Len(f.Parameters)
    THEN Fail("too many arguments to call function", st)
    ELSE IF st.fuel = 0 THEN Fail(OutOfFuel, st)
    ELSE LET callEnv == Len(st.envs) + 1
             st1 == [st EXCEPT
                       !.envs = DeclareParameters(f, args, 1, callEnv,
                                    NewEnvironment(@, f.DeclarationEnv)),
                       !.fuel = @ - 1,
                       !.call = callEnv]
             r == FunctionCallPrototypeBody(f.Body, 1, callEnv, st1)
         IN  IF r.err # "" THEN Fail(r.err, [r.st EXCEPT !.call = st.call])
             ELSE Ok(r.val, [r.st EXCEPT !.call = st.call])

\* The native `length` registered by setupNativeFunctions, on the values
\* this model has, and the `call` prototype.
NativeCall(f, args, e, st) ==
    IF f.Name = "length"
    THEN IF Len(args) # 1 THEN Fail("length expects 1 argument", st)
         ELSE IF args[1].tag = ARRAY_TYPE
         THEN Ok(MakeNumber(Len(st.heap[args[1].ptr].Elements)), st)
         ELSE Fail("length not supported for type", st)
    ELSE IF f.Name = "call" THEN FunctionCallPrototype(f.Self, args, st)
    ELSE Fail("native function outside the model", st)

\* Parameter binding (interpreter.go:389-406), from parameter i on.
RECURSIVE BindParameters(_, _, _, _, _)

BindParameters_DefaultInCallEnv(fn, args, i, fnEnv, st) ==
    IF i > Len(fn.Parameters) THEN Ok(MakeVoid, st)
    ELSE LET param == fn.Parameters[i]
             d == IF i <= Len(args) THEN Ok(args[i], st)
                  ELSE IF param.DefaultValue # NoNode
                  THEN Evaluate(param.DefaultValue, fnEnv, st)
                  ELSE Ok(MakeUndefined, st)
         IN  IF IsPanic(d.err) THEN d
             ELSE IF d.err # ""
             THEN Fail("error evaluating default parameter", d.st)
             ELSE BindParameters(fn, args, i + 1, fnEnv,
                      [d.st EXCEPT !.envs =
                          DeclareVar(@, fnEnv, param.Name, d.val, FALSE)])

BindParameters_Assigns(fn, args, i, fnEnv, st) ==
    IF i > Len(fn.Parameters) THEN Ok(MakeVoid, st)
    ELSE LET param == fn.Parameters[i]
             d == IF i <= Len(args) THEN Ok(args[i], st)
                  ELSE IF param.DefaultValue # NoNode
                  THEN Evaluate(param.DefaultValue, fn.DeclarationEnv, st)
                  ELSE Ok(MakeUndefined, st)
         IN  IF IsPanic(d.err) THEN d
             ELSE IF d.err # ""
             THEN Fail("error evaluating default parameter", d.st)
             ELSE BindParameters(fn, args, i + 1, fnEnv,
                      [d.st EXCEPT !.envs =
                          AssignVar(@, fnEnv, param.Name, d.val)])

BindParameters(fn, args, i, fnEnv, st) ==
    IF i > Len(fn.Parameters) THEN Ok(MakeVoid, st)
    ELSE LET param == fn.Parameters[i]
             d == IF i <= Len(args) THEN Ok(args[i], st)
                  ELSE IF param.DefaultValue # NoNode
                  THEN Evaluate(param.DefaultValue, fn.DeclarationEnv, st)
                  ELSE Ok(MakeUndefined, st)
         IN  IF IsPanic(d.err) THEN d
             ELSE IF d.err # ""
             THEN Fail("error evaluating default parameter", d.st)
             ELSE BindParameters(fn, args, i + 1, fnEnv,
                      [d.st EXCEPT !.envs =
                          DeclareVar(@, fnEnv, param.Name, d.val, FALSE)])

\* The body loop of callFunction (interpreter.go:409-423), from statement i.
RECURSIVE callFunctionBody(_, _, _, _, _)

callFunctionBody_NoUnwrap(body, i, fnEnv, st, res) ==
    IF i > Len(body) THEN Ok(res, st)
    ELSE LET r == Evaluate(body[i], fnEnv, Log(st, "stmt", MakeVoid))
         IN  IF r.err # "" THEN r
             ELSE IF r.val.tag # "nil" /\ r.val.tag = RETURN_TYPE
             THEN Returned(r.val, r.st)
             ELSE callFunctionBody(body, i + 1, fnEnv, r.st,
                      IF r.val.tag # "nil" THEN r.val ELSE res)

callFunctionBody(body, i, fnEnv, st, res) ==
    IF i > Len(body) THEN Ok(res, st)
    ELSE LET r == Evaluate(body[i], fnEnv, Log(st, "stmt", MakeVoid))
         IN  IF r.err # "" THEN r
             ELSE IF r.val.tag # "nil" /\ r.val.tag = RETURN_TYPE
             THEN Returned(r.val.Value, r.st)
             ELSE callFunctionBody(body, i + 1, fnEnv, r.st,
                      IF r.val.tag # "nil" THEN r.val ELSE res)

\* The "enter" and "exit" steps record the call's arguments and the value
\* it hands back; st.call names the call while its body runs.
callFunction_CallerScope(fn, args, e, st) ==
    IF st.fuel = 0 THEN Fail(OutOfFuel, st)
    ELSE LET fnEnv == Len(st.envs) + 1
             st1 == Log([st EXCEPT !.envs = NewEnvironment(@, e),
                                   !.fuel = @ - 1,
                                   !.call = fnEnv],
                        "enter", [tag |-> "args", Elements |-> args])
             b == BindParameters(fn, args, 1, fnEnv, st1)
             r == IF b.err # "" THEN b
                  ELSE callFunctionBody(fn.Body, 1, fnEnv, b.st, MakeVoid)
         IN  IF r.err # "" THEN Fail(r.err, [r.st EXCEPT !.call = st.call])
             ELSE Ok(r.val, [Log(r.st, "exit", r.val) EXCEPT !.call = st.call])

callFunction(fn, args, e, st) ==
    IF st.fuel = 0 THEN Fail(OutOfFuel, st)
    ELSE LET fnEnv == Len(st.envs) + 1
             st1 == Log([st EXCEPT !.envs = NewEnvironment(@, fn.DeclarationEnv),
                                   !.fuel = @ - 1,
                                   !.call = fnEnv],
                        "enter", [tag |-> "args", Elements |-> args])
             b == BindParameters(fn, args, 1, fnEnv, st1)
             r == IF b.err # "" THEN b
                  ELSE callFunctionBody(fn.Body, 1, fnEnv, b.st, MakeVoid)
         IN  IF r.err # "" THEN Fail(r.err, [r.st EXCEPT !.call = st.call])
             ELSE Ok(r.val, [Log(r.st, "exit", r.val) EXCEPT !.call = st.call])

evaluateCallExpression(node, e, st) ==
    LET f == Evaluate(node.Caller, e, st)
    IN  IF f.err # "" THEN f
        ELSE LET a == evaluateElements(node.Args, 1, e, f.st, <<>>)
             IN  IF a.err # "" THEN a
                 ELSE CASE f.val.tag = FUNCTION_TYPE ->
                               callFunction(f.val, a.val, e, a.st)
                        [] f.val.tag = NATIVE_FN_TYPE ->
                               NativeCall(f.val, a.val, e, a.st)
                        [] OTHER -> Fail("cannot call non-function value", a.st)

\* The statement loop of a taken branch (interpreter.go:607-618, 620-631).
RECURSIVE evaluateIfBody(_, _, _, _, _)
evaluateIfBody(stmts, i, e, st, res) ==
    IF i > Len(stmts) THEN Ok(res, st)
    ELSE LET r == Evaluate(stmts[i], e, Log(st, "stmt", MakeVoid))
         IN  IF r.err # "" THEN r
             ELSE IF r.val.tag # "nil" /\ r.val.tag = RETURN_TYPE
             THEN Returned(r.val, r.st)
             ELSE evaluateIfBody(stmts, i + 1, e, r.st,
                      IF r.val.tag # "nil" THEN r.val ELSE res)

evaluateIfStatement_ChildEnv(node, e, st) ==
    LET c == Evaluate(node.Test, e, Log(st, "test", MakeVoid))
        inner == Len(c.st.envs) + 1
        st1 == [c.st EXCEPT !.envs = NewEnvironment(@, e)]
    IN  IF c.err # "" THEN c
        ELSE LET b == IF IsTruthy(c.val, c.st.heap)
                      THEN evaluateIfBody(node.Consequent, 1, inner, st1, MakeVoid)
                      ELSE IF Len(node.Alternate) > 0
                      THEN evaluateIfBody(node.Alternate, 1, inner, st1, MakeVoid)
                      ELSE Ok(MakeVoid, c.st)
             IN  IF b.err # "" THEN b ELSE Ok(b.val, b.st)

evaluateIfStatement(node, e, st) ==
    LET c == Evaluate(node.Test, e, Log(st, "test", MakeVoid))
    IN  IF c.err # "" THEN c
        ELSE LET b == IF IsTruthy(c.val, c.st.heap)
                      THEN evaluateIfBody(node.Consequent, 1, e, c.st, MakeVoid)
                      ELSE IF Len(node.Alternate) > 0
                      THEN evaluateIfBody(node.Alternate, 1, e, c.st, MakeVoid)
                      ELSE Ok(MakeVoid, c.st)
             IN  IF b.err # "" THEN b ELSE Ok(b.val, b.st)

\* The statement loop of one while iteration (interpreter.go:650-661).
RECURSIVE evaluateWhileBody(_, _, _, _, _)

evaluateWhileBody_SwallowsReturn(stmts, i, e, st, res) ==
    IF i > Len(stmts) THEN Ok(res, st)
    ELSE LET r == Evaluate(stmts[i], e, Log(st, "stmt", MakeVoid))
         IN  IF r.err # "" THEN r
             ELSE evaluateWhileBody(stmts, i + 1, e, r.st,
                      IF r.val.tag # "nil" THEN r.val ELSE res)

evaluateWhileBody(stmts, i, e, st, res) ==
    IF i > Len(stmts) THEN Ok(res, st)
    ELSE LET r == Evaluate(stmts[i], e, Log(st, "stmt", MakeVoid))
         IN  IF r.err # "" THEN r
             ELSE IF r.val.tag # "nil" /\ r.val.tag = RETURN_TYPE
             THEN Returned(r.val, r.st)
             ELSE evaluateWhileBody(stmts, i + 1, e, r.st,
                      IF r.val.tag # "nil" THEN r.val ELSE res)

\* The outer `for { ... }` of evaluateWhileStatement; each iteration that
\* runs the body costs one unit of fuel.
RECURSIVE evaluateWhileLoop(_, _, _, _)
evaluateWhileLoop(node, e, st, res) ==
    LET c == Evaluate(node.Test, e, Log(st, "test", MakeVoid))
    IN  IF c.err # "" THEN c
        ELSE IF ~IsTruthy(c.val, c.st.heap) THEN Ok(res, c.st)
        ELSE IF c.st.fuel = 0 THEN Fail(OutOfFuel, c.st)
        ELSE LET b == evaluateWhileBody(node.Consequent, 1, e,
                          [c.st EXCEPT !.fuel = @ - 1], res)
             IN  IF b.err # "" THEN b
                 ELSE IF b.ret THEN Ok(b.val, b.st)
                 ELSE evaluateWhileLoop(node, e, b.st, b.val)

evaluateWhileStatement(node, e, st) == evaluateWhileLoop(node, e, st, MakeVoid)

\* The statement loop of one for iteration (interpreter.go:689-700).
RECURSIVE evaluateForBody(_, _, _, _, _)
evaluateForBody(stmts, i, forEnv, st, res) ==
    IF i > Len(stmts) THEN Ok(res, st)
    ELSE LET r == Evaluate(stmts[i], forEnv, Log(st, "stmt", MakeVoid))
         IN  IF r.err # "" THEN r
             ELSE IF r.val.tag # "nil" /\ r.val.tag = RETURN_TYPE
             THEN Returned(r.val, r.st)
             ELSE evaluateForBody(stmts, i + 1, forEnv, r.st,
                      IF r.val.tag # "nil" THEN r.val ELSE res)

\* The outer `for { ... }` of evaluateForStatement.
RECURSIVE evaluateForLoop(_, _, _, _)
evaluateForLoop(node, forEnv, st, res) ==
    LET c == Evaluate(node.Test, forEnv, Log(st, "test", MakeVoid))
    IN  IF c.err # "" THEN c
        ELSE IF ~IsTruthy(c.val, c.st.heap) THEN Ok(res, c.st)
        ELSE IF c.st.fuel = 0 THEN Fail(OutOfFuel, c.st)
        ELSE LET b == evaluateForBody(node.Body, 1, forEnv,
                          [c.st EXCEPT !.fuel = @ - 1], res)
             IN  IF b.err # "" THEN b
                 ELSE IF b.ret THEN Ok(b.val, b.st)
                 ELSE LET inc == Evaluate(node.Increaser, forEnv,
                                          Log(b.st, "incr", MakeVoid))
                      IN  IF inc.err # "" THEN inc
                          ELSE evaluateForLoop(node, forEnv, inc.st, b.val)

evaluateForStatement_NoChildEnv(node, e, st) ==
    LET d == Evaluate(node.Declaration, e,
                      Log(st, "decl", [tag |-> "env", ptr |-> e]))
    IN  IF d.err # "" THEN d
        ELSE evaluateForLoop(node, e, d.st, MakeVoid)

\* The "decl" step records the address of the loop's environment.
evaluateForStatement(node, e, st) ==
    LET forEnv == Len(st.envs) + 1
        d == Evaluate(node.Declaration, forEnv,
                      Log([st EXCEPT !.envs = NewEnvironment(@, e)],
                          "decl", [tag |-> "env", ptr |-> forEnv]))
    IN  IF d.err # "" THEN d
        ELSE evaluateForLoop(node, forEnv, d.st, MakeVoid)

\* case *ReturnExpr of Evaluate; the "ret" step records the wrapped value.
evaluateReturnExpr(node, e, st) ==
    LET r == Evaluate(node.Value, e, st)
    IN  IF r.err # "" THEN r
        ELSE Ok(MakeReturn(r.val), Log(r.st, "ret", r.val))

Evaluate(node, e, st) ==
    CASE node.kind = "Program" -> evaluateProgram(node, e, st)
      [] node.kind = "NumericLiteral" -> Ok(MakeNumber(node.Value), st)
      [] node.kind = "StringLiteral" -> evaluateStringLiteral(node, e, st)
      [] node.kind = "BooleanLiteral" -> Ok(MakeBool(node.Value), st)
      [] node.kind = "UndefinedLiteral" -> Ok(MakeUndefined, st)
      [] node.kind = "NullLiteral" -> Ok(MakeNull, st)
      [] node.kind = "Identifier" -> evaluateIdentifier(node, e, st)
      [] node.kind = "ArrayLiteral" -> evaluateArrayLiteral(node, e, st)
      [] node.kind = "ObjectLiteral" -> evaluateObjectLiteral(node, e, st)
      [] node.kind = "BinaryExpr" -> evaluateBinaryExpression(node, e, st)
      [] node.kind = "UnaryExpr" -> evaluateUnaryExpression(node, e, st)
      [] node.kind = "AssignmentExpr" -> evaluateAssignmentExpression(node, e, st)
      [] node.kind = "ActionAssignmentExpr" ->
             evaluateActionAssignmentExpression(node, e, st)
      [] node.kind = "CallExpr" -> evaluateCallExpression(node, e, st)
      [] node.kind = "MemberExpr" -> evaluateMemberExpression(node, e, st)
      [] node.kind = "TernaryExpr" -> evaluateTernaryExpression(node, e, st)
      [] node.kind = "EqualityExpr" -> evaluateEqualityExpression(node, e, st)
      [] node.kind = "InequalityExpr" -> evaluateInequalityExpression(node, e, st)
      [] node.kind = "LogicalExpr" -> evaluateLogicalExpression(node, e, st)
      [] node.kind = "FunctionDeclaration" ->
             evaluateFunctionDeclaration(node, e, st)
      [] node.kind = "IfStatement" -> evaluateIfStatement(node, e, st)
      [] node.kind = "WhileStatement" -> evaluateWhileStatement(node, e, st)
      [] node.kind = "ForStatement" -> evaluateForStatement(node, e, st)
      [] node.kind = "ReturnExpr" -> evaluateReturnExpr(node, e, st)
      [] OTHER -> Fail("unsupported AST node", st)

-----------------------------------------------------------------------------
(* tokenizer.go: the tokens the parser is given *)

\* A Token without its Position.  The kinds are the TokenType constants; the
\* kinds FLOAT, TYPEOF and DEBUG do not occur in this model's inputs.
Token(type, value) == [Type |-> type, Value |-> value]

EOFToken == Token("EOF", "")

\* A text is a sequence of characters, each a one-character string; NUL is
\* the rune 0 that current() returns past the end.
NUL == "NUL"

\* unicode.IsSpace, unicode.IsDigit and unicode.IsLetter on the characters of
\* this model's texts.
IsSpace(char) == char \in {" ", "\n", "\t", "\r"}
IsDigit(char) == char \in {"0", "1", "2", "3", "4", "5", "6", "7", "8", "9"}
IsLetter(char) == char \in {"a", "f", "i", "x", "y"}

keywords ==
    [fn |-> "FN", lambda |-> "LAMBDA", if |-> "IF", else |-> "ELSE",
     return |-> "RETURN", typeof |-> "TYPEOF", for |-> "FOR", while |-> "WHILE",
     debug |-> "DEBUG", use |-> "USE", out |-> "OUT", true |-> "BOOLEAN",
     false |-> "BOOLEAN", undef |-> "UNDEFINED"]

\* The Tokenizer's position, line and index; its input is passed beside it.
NewTokenizer == [position |-> 0, line |-> 0, index |-> 0]

Position(t) == [Line |-> t.line, Column |-> t.index, Index |-> t.position]

PositionedToken(type, value, position) ==
    [Type |-> type, Value |-> value, Position |-> position]

current(input, t) ==
    IF t.position >= Len(input) THEN NUL ELSE input[t.position + 1]

advance(input, t) ==
    IF t.position < Len(input)
    THEN [t EXCEPT !.position = @ + 1, !.index = @ + 1]
    ELSE t

\* `for t.position < len(t.input) && t.current() != '\n' { t.advance() }`
RECURSIVE skipComment(_, _)

skipComment_Stands(input, t) == t

skipComment(input, t) ==
    IF t.position < Len(input) /\ current(input, t) # "\n"
    THEN skipComment(input, advance(input, t))
    ELSE t

\* The character an escape stands for.
Unescape(char) ==
    CASE char = "n" -> "\n"
      [] char = "t" -> "\t"
      [] char = "r" -> "\r"
      [] OTHER -> char

\* The loop of readString, after the opening quote.
RECURSIVE readStringLoop(_, _, _, _, _)
readStringLoop(input, t, quote, built, escaped) ==
    IF t.position >= Len(input)
    THEN [text |-> "", err |-> "unterminated string", t |-> t]
    ELSE LET char == current(input, t)
         IN  IF escaped
             THEN readStringLoop(input, advance(input, t), quote,
                                 built \o Unescape(char), FALSE)
             ELSE IF char = "\\"
             THEN readStringLoop(input, advance(input, t), quote, built, TRUE)
             ELSE IF char = quote
             THEN [text |-> built, err |-> "", t |-> advance(input, t)]
             ELSE readStringLoop(input, advance(input, t), quote,
                                 built \o char, FALSE)

readString(input, t, quote) ==
    readStringLoop(input, advance(input, t), quote, "", FALSE)

RECURSIVE readNumberLoop(_, _, _, _)
readNumberLoop(input, t, built, isFloat) ==
    LET char == current(input, t)
    IN  IF t.position < Len(input) /\ (IsDigit(char) \/ char = ".")
           /\ ~(char = "." /\ isFloat)
        THEN readNumberLoop(input, advance(input, t), built \o char,
                            isFloat \/ char = ".")
        ELSE [text |-> built, isFloat |-> isFloat, t |-> t]

readNumber(input, t) == readNumberLoop(input, t, "", FALSE)

RECURSIVE readIdentifierLoop(_, _, _)
readIdentifierLoop(input, t, built) ==
    LET char == current(input, t)
    IN  IF t.position < Len(input)
           /\ (IsLetter(char) \/ IsDigit(char) \/ char = "_")
        THEN readIdentifierLoop(input, advance(input, t), built \o char)
        ELSE [text |-> built, t |-> t]

readIdentifier(input, t) == readIdentifierLoop(input, t, "")

isOperator(char) ==
    char \in {"+", "-", "*", "/", "%", "=", "<", ">", "!", "&", "|", "^"}

\* readOperator gathers operator characters and returns early only on one of
\* the listed two-character operators.
RECURSIVE readOperatorLoop(_, _, _)
readOperatorLoop(input, t, built) ==
    IF t.position < Len(input) /\ isOperator(current(input, t))
    THEN LET text == built \o current(input, t)
         IN  IF Len(text) >= 2
                /\ text \in {"==", "!=", "<=", ">=", "&&", "||", "++", "--",
                            "+=", "-=", "*=", "/=", "**"}
             THEN [text |-> text, t |-> advance(input, t)]
             ELSE readOperatorLoop(input, advance(input, t), text)
    ELSE [text |-> built, t |-> t]

readOperator(input, t) == readOperatorLoop(input, t, "")

getOperatorType(text) ==
    CASE text = "=" -> "EQUALS"
      [] text = "==" -> "EQUALITY_OP"
      [] text = "!=" -> "INEQUALITY_OP"
      [] text = "<" -> "SMALLER_THAN"
      [] text = ">" -> "GREATER_THAN"
      [] text = "<=" -> "SMALLER_OR_EQUAL"
      [] text = ">=" -> "GREATER_OR_EQUAL"
      [] text = "&&" -> "AND"
      [] text = "||" -> "OR"
      [] text = "!" -> "NEGATION_OP"
      [] text = "++" -> "INCREMENT"
      [] text = "--" -> "DECREMENT"
      [] text = "+=" -> "PLUS_EQ"
      [] text = "-=" -> "MINUS_EQ"
      [] OTHER -> "BINARY_OPERATOR"

\* The kinds of the one-character tokens.
Punctuation ==
    [c \in {"(", ")", "{", "}", "[", "]", ",", ".", ":", ";", "?"} |->
        CASE c = "(" -> "OPEN_PAREN"
          [] c = ")" -> "CLOSE_PAREN"
          [] c = "{" -> "OPEN_BRACE"
          [] c = "}" -> "CLOSE_BRACE"
          [] c = "[" -> "OPEN_BRACKET"
          [] c = "]" -> "CLOSE_BRACKET"
          [] c = "," -> "COMMA"
          [] c = "." -> "DOT"
          [] c = ":" -> "COLON"
          [] c = ";" -> "SEMICOLON"
          [] c = "?" -> "TERNARY"]

NoToken == [Type |-> "none"]

\* What one iteration of Tokenize's loop does: the branch taken, the token
\* appended if any, the error returned if any, and the tokenizer after it.
Iteration(k, token, err, t) == [k |-> k, token |-> token, err |-> err, t |-> t]

TokenizeStep(input, t) ==
    LET char == current(input, t)
        startPos == Position(t)
    IN  IF char = "\n"
        THEN Iteration("newline", PositionedToken("NEWLINE", char, startPos), "",
                       advance(input, [t EXCEPT !.line = @ + 1, !.index = 0]))
        ELSE IF IsSpace(char)
        THEN Iteration("space", NoToken, "", advance(input, t))
        ELSE IF char = "#"
        THEN Iteration("comment", NoToken, "", skipComment(input, t))
        ELSE IF char \in {"\"", "'"}
        THEN LET str == readString(input, t, char)
             IN  IF str.err # ""
                 THEN Iteration("string", NoToken, str.err, str.t)
                 ELSE Iteration("string",
                                PositionedToken("STRING", str.text, startPos), "",
                                str.t)
        ELSE IF IsDigit(char)
        THEN LET num == readNumber(input, t)
             IN  Iteration("number",
                           PositionedToken(IF num.isFloat THEN "FLOAT" ELSE "INT",
                                           num.text, startPos), "", num.t)
        ELSE IF IsLetter(char) \/ char = "_"
        THEN LET identifier == readIdentifier(input, t)
             IN  Iteration("identifier",
                           PositionedToken(
                               IF identifier.text \in DOMAIN keywords
                               THEN keywords[identifier.text] ELSE "IDENTIFIER",
                               identifier.text, startPos), "", identifier.t)
        ELSE IF char \in DOMAIN Punctuation
        THEN Iteration("punctuation",
                       PositionedToken(Punctuation[char], char, startPos), "",
                       advance(input, t))
        ELSE IF isOperator(char)
        THEN LET operator == readOperator(input, t)
             IN  Iteration("operator",
                           PositionedToken(getOperatorType(operator.text),
                                           operator.text, startPos), "",
                           operator.t)
        ELSE Iteration("unexpected", NoToken, "unexpected character", t)

\* The loop runs once more than the text has characters only if some
\* iteration did not move the position; the code would then never return.
TokenizeDiverged == "Tokenize does not return"

\* `for t.position < len(t.input) { ... }` and the EOF token after it.
\* steps lists, for every iteration, its branch and the position before and
\* after it.
RECURSIVE TokenizeLoop(_, _, _, _, _)

TokenizeLoop_EOFAtStart(input, t, tokens, steps, budget) ==
    IF t.position >= Len(input)
    THEN [tokens |-> Append(tokens,
                            PositionedToken("EOF", "", Position(NewTokenizer))),
          err |-> "", steps |-> steps]
    ELSE IF budget = 0
    THEN [tokens |-> <<>>, err |-> TokenizeDiverged, steps |-> steps]
    ELSE LET s == TokenizeStep(input, t)
             step == [k |-> s.k, from |-> t.position, to |-> s.t.position]
         IN  IF s.err # ""
             THEN [tokens |-> <<>>, err |-> s.err, steps |-> Append(steps, step)]
             ELSE TokenizeLoop(input, s.t,
                               IF s.token = NoToken THEN tokens
                               ELSE Append(tokens, s.token),
                               Append(steps, step), budget - 1)

TokenizeLoop(input, t, tokens, steps, budget) ==
    IF t.position >= Len(input)
    THEN [tokens |-> Append(tokens, PositionedToken("EOF", "", Position(t))),
          err |-> "", steps |-> steps]
    ELSE IF budget = 0
    THEN [tokens |-> <<>>, err |-> TokenizeDiverged, steps |-> steps]
    ELSE LET s == TokenizeStep(input, t)
             step == [k |-> s.k, from |-> t.position, to |-> s.t.position]
         IN  IF s.err # ""
             THEN [tokens |-> <<>>, err |-> s.err, steps |-> Append(steps, step)]
             ELSE TokenizeLoop(input, s.t,
                               IF s.token = NoToken THEN tokens
                               ELSE Append(tokens, s.token),
                               Append(steps, step), budget - 1)

Tokenize(input) == TokenizeLoop(input, NewTokenizer, <<>>, <<>>, Len(input) + 1)

-----------------------------------------------------------------------------
(* parser.go *)

\* A parse function's outcome: the node (or list) it built, the error, and
\* the parser's position after it.  Positions count from 1.
Parsed(node, pos) == [node |-> node, err |-> "", pos |-> pos]
ParseError(msg, pos) == [node |-> NoNode, err |-> msg, pos |-> pos]

at(tokens, pos) == IF pos > Len(tokens) THEN EOFToken ELSE tokens[pos]

isEOF(tokens, pos) == at(tokens, pos).Type = "EOF"

\* A call p.method() of the parser at position pos: the methods call one
\* another, so every such call is written Parser("method", tokens, pos).
RECURSIVE Parser(_, _, _)

\* `for p.at().Type != CLOSE_BRACE && !p.isEOF() { stmt := parseStatement;
\* append unless nil }`: the loop of every braced body.
RECURSIVE parseBlock(_, _, _)
parseBlock(tokens, pos, body) ==
    IF at(tokens, pos).Type = "CLOSE_BRACE" \/ isEOF(tokens, pos)
    THEN Parsed(body, pos)
    ELSE LET s == Parser("parseStatement", tokens, pos)
         IN  IF s.err # "" THEN s
             ELSE parseBlock(tokens, s.pos,
                             IF s.node # NoNode THEN Append(body, s.node) ELSE body)

\* `{ body }` from the opening brace on; closeError names the missing brace.
parseBracedBody(tokens, pos, closeError) ==
    LET b == parseBlock(tokens, pos + 1, <<>>)
    IN  IF b.err # "" THEN b
        ELSE IF at(tokens, b.pos).Type # "CLOSE_BRACE"
        THEN ParseError(closeError, b.pos)
        ELSE Parsed(b.node, b.pos + 1)

\* expr (, expr)* : the loop of call arguments and of array elements.
RECURSIVE parseExpressionList(_, _, _)
parseExpressionList(tokens, pos, acc) ==
    LET x == Parser("parseExpression", tokens, pos)
    IN  IF x.err # "" THEN x
        ELSE IF at(tokens, x.pos).Type = "COMMA"
        THEN parseExpressionList(tokens, x.pos + 1, Append(acc, x.node))
        ELSE Parsed(Append(acc, x.node), x.pos)

parseArrayLiteral(tokens, pos) ==
    LET els == IF at(tokens, pos + 1).Type # "CLOSE_BRACKET"
               THEN parseExpressionList(tokens, pos + 1, <<>>)
               ELSE Parsed(<<>>, pos + 1)
    IN  IF els.err # "" THEN els
        ELSE IF at(tokens, els.pos).Type # "CLOSE_BRACKET"
        THEN ParseError("expected ']' after array elements", els.pos)
        ELSE Parsed(ArrayLiteral(els.node), els.pos + 1)

RECURSIVE parseProperties(_, _, _)
parseProperties(tokens, pos, acc) ==
    IF at(tokens, pos).Type \notin {"IDENTIFIER", "STRING"}
    THEN ParseError("expected property name", pos)
    ELSE LET key == at(tokens, pos).Value
             p == IF at(tokens, pos + 1).Type \in {"COMMA", "CLOSE_BRACE"}
                  THEN Parsed(Property(key, Identifier(key)), pos + 1)
                  ELSE IF at(tokens, pos + 1).Type # "COLON"
                  THEN ParseError("expected ':' after property name", pos + 1)
                  ELSE LET v == Parser("parseExpression", tokens, pos + 2)
                       IN  IF v.err # "" THEN v
                           ELSE Parsed(Property(key, v.node), v.pos)
         IN  IF p.err # "" THEN p
             ELSE IF at(tokens, p.pos).Type = "COMMA"
             THEN parseProperties(tokens, p.pos + 1, Append(acc, p.node))
             ELSE Parsed(Append(acc, p.node), p.pos)

parseObjectLiteral(tokens, pos) ==
    LET props == IF at(tokens, pos + 1).Type # "CLOSE_BRACE"
                 THEN parseProperties(tokens, pos + 1, <<>>)
                 ELSE Parsed(<<>>, pos + 1)
    IN  IF props.err # "" THEN props
        ELSE IF at(tokens, props.pos).Type # "CLOSE_BRACE"
        THEN ParseError("expected '}' after object properties", props.pos)
        ELSE Parsed(ObjectLiteral(props.node), props.pos + 1)

\* Parameters with their optional `=(default)`.
RECURSIVE parseParameterList(_, _, _)
parseParameterList(tokens, pos, parameters) ==
    IF at(tokens, pos).Type # "IDENTIFIER" THEN Parsed(parameters, pos)
    ELSE LET paramName == at(tokens, pos).Value
         IN  IF at(tokens, pos + 1).Type # "EQUALS"
             THEN parseParameterList(tokens, pos + 1,
                                     Append(parameters, Parameter(paramName, NoNode)))
             ELSE IF at(tokens, pos + 2).Type # "OPEN_PAREN"
             THEN ParseError("expected '(' after '=' in default parameter", pos + 2)
             ELSE LET d == Parser("parseExpression", tokens, pos + 3)
                  IN  IF d.err # "" THEN d
                      ELSE IF at(tokens, d.pos).Type # "CLOSE_PAREN"
                      THEN ParseError("expected ')' after default parameter value",
                                      d.pos)
                      ELSE parseParameterList(tokens, d.pos + 1,
                               Append(parameters, Parameter(paramName, d.node)))

\* The body of a function after its parameters: a braced block, or `: expr`
\* wrapped in a return.
parseFunctionBody(tokens, pos) ==
    IF at(tokens, pos).Type \notin {"OPEN_BRACE", "COLON"}
    THEN ParseError("expected '{' or ':' after function parameters", pos)
    ELSE IF at(tokens, pos).Type = "OPEN_BRACE"
    THEN parseBracedBody(tokens, pos, "expected '}' after function body")
    ELSE LET x == Parser("parseTernaryExpression", tokens, pos + 1)
         IN  IF x.err # "" THEN x
             ELSE Parsed(<<ReturnExpr(x.node)>>, x.pos)

\* pos is at `fn` or `lambda`.
parseFunctionExpression(tokens, pos) ==
    LET isLambda == at(tokens, pos).Type = "LAMBDA"
    IN  IF at(tokens, pos + 1).Type = "COLON"
        THEN IF at(tokens, pos + 2).Type = "COLON"
             THEN LET x == Parser("parseExpression", tokens, pos + 3)
                  IN  IF x.err # "" THEN x
                      ELSE Parsed(CallExpr(FunctionDeclaration("", <<>>,
                                               <<ReturnExpr(x.node)>>), <<>>),
                                  x.pos)
             ELSE LET ps == parseParameterList(tokens, pos + 2, <<>>)
                  IN  IF ps.err # "" THEN ps
                      ELSE IF at(tokens, ps.pos).Type # "COLON"
                      THEN ParseError("expected ':' after function parameters in anonymous function",
                                      ps.pos)
                      ELSE LET x == Parser("parseTernaryExpression", tokens, ps.pos + 1)
                           IN  IF x.err # "" THEN x
                               ELSE Parsed(FunctionDeclaration("", ps.node,
                                               <<ReturnExpr(x.node)>>), x.pos)
        ELSE LET named == ~isLambda /\ at(tokens, pos + 1).Type = "IDENTIFIER"
                 name == IF named THEN at(tokens, pos + 1).Value ELSE ""
                 ps == parseParameterList(tokens, IF named THEN pos + 2 ELSE pos + 1,
                                          <<>>)
             IN  IF ps.err # "" THEN ps
                 ELSE LET b == Parser("parseFunctionBody", tokens, ps.pos)
                      IN  IF b.err # "" THEN b
                          ELSE Parsed(FunctionDeclaration(name, ps.node, b.node),
                                      b.pos)

parsePrimaryExpression_ParenTakesOperand(tokens, pos) ==
    LET token == at(tokens, pos)
    IN  CASE token.Type = "IDENTIFIER" -> Parsed(Identifier(token.Value), pos + 1)
          [] token.Type = "INT" ->
                 Parsed(NumericLiteral(ParseFloat(token.Value)), pos + 1)
          [] token.Type = "STRING" -> Parsed(StringLiteral(token.Value), pos + 1)
          [] token.Type = "BOOLEAN" ->
                 Parsed(BooleanLiteral(token.Value = "true"), pos + 1)
          [] token.Type = "UNDEFINED" -> Parsed(UndefinedLiteral, pos + 1)
          [] token.Type = "OPEN_PAREN" ->
                 LET x == Parser("parseUnaryExpression", tokens, pos + 1)
                 IN  IF x.err # "" THEN x
                     ELSE IF at(tokens, x.pos).Type # "CLOSE_PAREN"
                     THEN ParseError("expected ')' after expression", x.pos)
                     ELSE Parsed(x.node, x.pos + 1)
          [] token.Type = "OPEN_BRACKET" -> Parser("parseArrayLiteral", tokens, pos)
          [] token.Type = "OPEN_BRACE" -> Parser("parseObjectLiteral", tokens, pos)
          [] token.Type \in {"FN", "LAMBDA"} -> Parser("parseFunctionExpression", tokens, pos)
          [] OTHER -> ParseError("unexpected token", pos)

parsePrimaryExpression(tokens, pos) ==
    LET token == at(tokens, pos)
    IN  CASE token.Type = "IDENTIFIER" -> Parsed(Identifier(token.Value), pos + 1)
          [] token.Type = "INT" ->
                 Parsed(NumericLiteral(ParseFloat(token.Value)), pos + 1)
          [] token.Type = "STRING" -> Parsed(StringLiteral(token.Value), pos + 1)
          [] token.Type = "BOOLEAN" ->
                 Parsed(BooleanLiteral(token.Value = "true"), pos + 1)
          [] token.Type = "UNDEFINED" -> Parsed(UndefinedLiteral, pos + 1)
          [] token.Type = "OPEN_PAREN" ->
                 LET x == Parser("parseExpression", tokens, pos + 1)
                 IN  IF x.err # "" THEN x
                     ELSE IF at(tokens, x.pos).Type # "CLOSE_PAREN"
                     THEN ParseError("expected ')' after expression", x.pos)
                     ELSE Parsed(x.node, x.pos + 1)
          [] token.Type = "OPEN_BRACKET" -> Parser("parseArrayLiteral", tokens, pos)
          [] token.Type = "OPEN_BRACE" -> Parser("parseObjectLiteral", tokens, pos)
          [] token.Type \in {"FN", "LAMBDA"} -> Parser("parseFunctionExpression", tokens, pos)
          [] OTHER -> ParseError("unexpected token", pos)

\* The `.property` / `[property]` loop of parseMemberExpression.
RECURSIVE parseMemberLoop(_, _, _)
parseMemberLoop(tokens, pos, object) ==
    CASE at(tokens, pos).Type = "DOT" ->
             LET property == Parser("parsePrimaryExpression", tokens, pos + 1)
             IN  IF property.err # "" THEN property
                 ELSE parseMemberLoop(tokens, property.pos,
                                      MemberExpr(object, property.node, FALSE))
      [] at(tokens, pos).Type = "OPEN_BRACKET" ->
             LET property == Parser("parseExpression", tokens, pos + 1)
             IN  IF property.err # "" THEN property
                 ELSE IF at(tokens, property.pos).Type # "CLOSE_BRACKET"
                 THEN ParseError("expected ']' after computed member access",
                                 property.pos)
                 ELSE parseMemberLoop(tokens, property.pos + 1,
                                      MemberExpr(object, property.node, TRUE))
      [] OTHER -> Parsed(object, pos)

parseMemberExpression(tokens, pos) ==
    LET object == Parser("parsePrimaryExpression", tokens, pos)
    IN  IF object.err # "" THEN object
        ELSE parseMemberLoop(tokens, object.pos, object.node)

\* pos is at the `(` that follows caller.
RECURSIVE parseCallExpression(_, _, _)
parseCallExpression(tokens, pos, caller) ==
    LET args == IF at(tokens, pos + 1).Type # "CLOSE_PAREN"
                THEN parseExpressionList(tokens, pos + 1, <<>>)
                ELSE Parsed(<<>>, pos + 1)
    IN  IF args.err # "" THEN args
        ELSE IF at(tokens, args.pos).Type # "CLOSE_PAREN"
        THEN ParseError("expected ')' after function arguments", args.pos)
        ELSE IF at(tokens, args.pos + 1).Type = "OPEN_PAREN"
        THEN parseCallExpression(tokens, args.pos + 1, CallExpr(caller, args.node))
        ELSE Parsed(CallExpr(caller, args.node), args.pos + 1)

parseCallMemberExpression(tokens, pos) ==
    LET member == Parser("parseMemberExpression", tokens, pos)
    IN  IF member.err # "" THEN member
        ELSE IF at(tokens, member.pos).Type = "OPEN_PAREN"
        THEN parseCallExpression(tokens, member.pos, member.node)
        ELSE member

parseUnaryExpression(tokens, pos) ==
    IF \/ at(tokens, pos).Type \in {"NEGATION_OP", "INCREMENT", "DECREMENT"}
       \/ at(tokens, pos).Value \in {"+", "-"}
    THEN LET value == Parser("parseUnaryExpression", tokens, pos + 1)
         IN  IF value.err # "" THEN value
             ELSE Parsed(UnaryExpr(value.node, at(tokens, pos).Value), value.pos)
    ELSE LET expr == Parser("parseCallMemberExpression", tokens, pos)
         IN  IF expr.err # "" THEN expr
             ELSE IF at(tokens, expr.pos).Type \in {"INCREMENT", "DECREMENT"}
             THEN Parsed(UnaryExpr(expr.node, at(tokens, expr.pos).Value \o "_post"),
                         expr.pos + 1)
             ELSE expr

\* One left-associative level: while the token at pos is one of the level's
\* operators, parse the next operand one level down and fold to the left.
RECURSIVE parseMultiplicativeLoop(_, _, _)
parseMultiplicativeLoop(tokens, pos, left) ==
    IF at(tokens, pos).Value \in {"*", "/", "%", "**"}
    THEN LET right == Parser("parseUnaryExpression", tokens, pos + 1)
         IN  IF right.err # "" THEN right
             ELSE parseMultiplicativeLoop(tokens, right.pos,
                      BinaryExpr(left, at(tokens, pos).Value, right.node))
    ELSE Parsed(left, pos)

parseMultiplicativeExpression(tokens, pos) ==
    LET left == Parser("parseUnaryExpression", tokens, pos)
    IN  IF left.err # "" THEN left
        ELSE parseMultiplicativeLoop(tokens, left.pos, left.node)

RECURSIVE parseAdditiveLoop(_, _, _)

parseAdditiveLoop_SamePrecedence(tokens, pos, left) ==
    IF at(tokens, pos).Value \in {"+", "-", "*", "/", "%", "**"}
    THEN LET right == Parser("parseUnaryExpression", tokens, pos + 1)
         IN  IF right.err # "" THEN right
             ELSE parseAdditiveLoop(tokens, right.pos,
                      BinaryExpr(left, at(tokens, pos).Value, right.node))
    ELSE Parsed(left, pos)

parseAdditiveLoop(tokens, pos, left) ==
    IF at(tokens, pos).Value \in {"+", "-"}
    THEN LET right == Parser("parseMultiplicativeExpression", tokens, pos + 1)
         IN  IF right.err # "" THEN right
             ELSE parseAdditiveLoop(tokens, right.pos,
                      BinaryExpr(left, at(tokens, pos).Value, right.node))
    ELSE Parsed(left, pos)

parseAdditiveExpression(tokens, pos) ==
    LET left == Parser("parseMultiplicativeExpression", tokens, pos)
    IN  IF left.err # "" THEN left
        ELSE parseAdditiveLoop(tokens, left.pos, left.node)

RECURSIVE parseInequalityLoop(_, _, _)
parseInequalityLoop(tokens, pos, left) ==
    IF at(tokens, pos).Type \in {"SMALLER_THAN", "GREATER_THAN",
                                 "SMALLER_OR_EQUAL", "GREATER_OR_EQUAL"}
    THEN LET right == Parser("parseAdditiveExpression", tokens, pos + 1)
         IN  IF right.err # "" THEN right
             ELSE parseInequalityLoop(tokens, right.pos,
                      InequalityExpr(left, at(tokens, pos).Value, right.node))
    ELSE Parsed(left, pos)

parseInequalityExpression(tokens, pos) ==
    LET left == Parser("parseAdditiveExpression", tokens, pos)
    IN  IF left.err # "" THEN left
        ELSE parseInequalityLoop(tokens, left.pos, left.node)

RECURSIVE parseEqualityLoop(_, _, _)
parseEqualityLoop(tokens, pos, left) ==
    IF at(tokens, pos).Type \in {"EQUALITY_OP", "INEQUALITY_OP"}
    THEN LET right == Parser("parseInequalityExpression", tokens, pos + 1)
         IN  IF right.err # "" THEN right
             ELSE parseEqualityLoop(tokens, right.pos,
                      EqualityExpr(left, at(tokens, pos).Value, right.node))
    ELSE Parsed(left, pos)

parseEqualityExpression(tokens, pos) ==
    LET left == Parser("parseInequalityExpression", tokens, pos)
    IN  IF left.err # "" THEN left
        ELSE parseEqualityLoop(tokens, left.pos, left.node)

RECURSIVE parseLogicalLoop(_, _, _)
parseLogicalLoop(tokens, pos, left) ==
    IF at(tokens, pos).Type \in {"AND", "OR"}
    THEN LET right == Parser("parseEqualityExpression", tokens, pos + 1)
         IN  IF right.err # "" THEN right
             ELSE parseLogicalLoop(tokens, right.pos,
                      LogicalExpr(left, at(tokens, pos).Value, right.node))
    ELSE Parsed(left, pos)

parseLogicalExpression(tokens, pos) ==
    LET left == Parser("parseEqualityExpression", tokens, pos)
    IN  IF left.err # "" THEN left
        ELSE parseLogicalLoop(tokens, left.pos, left.node)

parseTernaryExpression(tokens, pos) ==
    LET expr == Parser("parseLogicalExpression", tokens, pos)
    IN  IF expr.err # "" THEN expr
        ELSE IF at(tokens, expr.pos).Type # "TERNARY" THEN expr
        ELSE LET consequent == Parser("parseLogicalExpression", tokens, expr.pos + 1)
             IN  IF consequent.err # "" THEN consequent
                 ELSE IF at(tokens, consequent.pos).Type # "COLON"
                 THEN ParseError("expected ':' in ternary expression", consequent.pos)
                 ELSE LET alternate == Parser("parseTernaryExpression", tokens,
                                                              consequent.pos + 1)
                      IN  IF alternate.err # "" THEN alternate
                          ELSE Parsed(TernaryExpr(expr.node, consequent.node,
                                                  alternate.node), alternate.pos)

\* After the left side: `= value`; or `:` and the token after it, taken as
\* the action name whatever it is, then `= value` if an `=` follows, and the
\* left side alone (both tokens consumed) if none does.
parseAssignmentExpression(tokens, pos) ==
    LET left == Parser("parseTernaryExpression", tokens, pos)
    IN  IF left.err # "" THEN left
        ELSE IF at(tokens, left.pos).Type = "EQUALS"
        THEN LET value == Parser("parseExpression", tokens, left.pos + 1)
             IN  IF value.err # "" THEN value
                 ELSE Parsed(AssignmentExpr(left.node, value.node), value.pos)
        ELSE IF at(tokens, left.pos).Type = "COLON"
        THEN LET action == at(tokens, left.pos + 1).Value
             IN  IF at(tokens, left.pos + 2).Type = "EQUALS"
                 THEN LET value == Parser("parseExpression", tokens, left.pos + 3)
                      IN  IF value.err # "" THEN value
                          ELSE Parsed(ActionAssignmentExpr(left.node, action,
                                                           value.node), value.pos)
                 ELSE Parsed(left.node, left.pos + 2)
        ELSE left

parseExpression(tokens, pos) == Parser("parseAssignmentExpression", tokens, pos)

\* pos is at `fn` or `out`.
parseFunctionDeclaration(tokens, pos) ==
    LET out == at(tokens, pos).Type = "OUT"
    IN  IF out /\ at(tokens, pos + 1).Type # "FN"
        THEN ParseError("expected 'fn' after 'out'", pos + 1)
        ELSE LET q == IF out THEN pos + 2 ELSE pos + 1
             IN  IF at(tokens, q).Type = "COLON"
                 THEN IF at(tokens, q + 1).Type = "COLON"
                      THEN LET x == Parser("parseExpression", tokens, q + 2)
                           IN  IF x.err # "" THEN x
                               ELSE Parsed([FunctionDeclaration("", <<>>,
                                                <<ReturnExpr(x.node)>>)
                                              EXCEPT !.Export = out], x.pos)
                      ELSE ParseError("unexpected ':' after 'fn' in function declaration",
                                      q + 1)
                 ELSE IF at(tokens, q).Type # "IDENTIFIER"
                 THEN ParseError("expected function name", q)
                 ELSE LET ps == parseParameterList(tokens, q + 1, <<>>)
                      IN  IF ps.err # "" THEN ps
                          ELSE LET b == Parser("parseFunctionBody", tokens, ps.pos)
                               IN  IF b.err # "" THEN b
                                   ELSE Parsed([FunctionDeclaration(at(tokens, q).Value,
                                                    ps.node, b.node)
                                                  EXCEPT !.Export = out], b.pos)

\* The body after an if / while condition: a braced block, or `:` and one
\* statement.
parseConsequent(tokens, pos, what) ==
    IF at(tokens, pos).Type \notin {"OPEN_BRACE", "COLON"}
    THEN ParseError("expected '{' or ':' after " \o what \o " condition", pos)
    ELSE IF at(tokens, pos).Type = "OPEN_BRACE"
    THEN parseBracedBody(tokens, pos, "expected '}' after " \o what \o " body")
    ELSE LET s == Parser("parseStatement", tokens, pos + 1)
         IN  IF s.err # "" THEN s
             ELSE Parsed(IF s.node # NoNode THEN <<s.node>> ELSE <<>>, s.pos)

\* pos is after `else`.
parseAlternate(tokens, pos) ==
    IF at(tokens, pos).Type = "IF"
    THEN LET elseIf == Parser("parseIfStatement", tokens, pos)
         IN  IF elseIf.err # "" THEN elseIf
             ELSE Parsed(<<elseIf.node>>, elseIf.pos)
    ELSE IF at(tokens, pos).Type = "OPEN_BRACE"
    THEN parseBracedBody(tokens, pos, "expected '}' after else body")
    ELSE LET s == Parser("parseStatement", tokens, pos)
         IN  IF s.err # "" THEN s
             ELSE Parsed(IF s.node # NoNode THEN <<s.node>> ELSE <<>>, s.pos)

parseIfStatement(tokens, pos) ==
    LET test == Parser("parseExpression", tokens, pos + 1)
    IN  IF test.err # "" THEN test
        ELSE LET consequent == parseConsequent(tokens, test.pos, "if")
             IN  IF consequent.err # "" THEN consequent
                 ELSE IF at(tokens, consequent.pos).Type # "ELSE"
                 THEN Parsed(IfStatement(test.node, consequent.node, <<>>),
                             consequent.pos)
                 ELSE LET alternate == Parser("parseAlternate", tokens, consequent.pos + 1)
                      IN  IF alternate.err # "" THEN alternate
                          ELSE Parsed(IfStatement(test.node, consequent.node,
                                                  alternate.node), alternate.pos)

parseWhileStatement(tokens, pos) ==
    LET test == Parser("parseExpression", tokens, pos + 1)
    IN  IF test.err # "" THEN test
        ELSE LET consequent == parseConsequent(tokens, test.pos, "while")
             IN  IF consequent.err # "" THEN consequent
                 ELSE Parsed(WhileStatement(test.node, consequent.node),
                             consequent.pos)

parseForStatement(tokens, pos) ==
    LET declaration == Parser("parseExpression", tokens, pos + 1)
    IN  IF declaration.err # "" THEN declaration
        ELSE IF at(tokens, declaration.pos).Type # "SEMICOLON"
        THEN ParseError("expected ';' after for declaration", declaration.pos)
        ELSE LET test == Parser("parseExpression", tokens, declaration.pos + 1)
             IN  IF test.err # "" THEN test
                 ELSE IF at(tokens, test.pos).Type # "SEMICOLON"
                 THEN ParseError("expected ';' after for test", test.pos)
                 ELSE LET increaser == Parser("parseExpression", tokens, test.pos + 1)
                      IN  IF increaser.err # "" THEN increaser
                          ELSE IF at(tokens, increaser.pos).Type # "OPEN_BRACE"
                          THEN ParseError("expected '{' after for header",
                                          increaser.pos)
                          ELSE LET body == parseBracedBody(tokens, increaser.pos,
                                               "expected '}' after for body")
                               IN  IF body.err # "" THEN body
                                   ELSE Parsed(ForStatement(declaration.node,
                                                   test.node, increaser.node,
                                                   body.node), body.pos)

parseReturnStatement(tokens, pos) ==
    LET value == Parser("parseExpression", tokens, pos + 1)
    IN  IF value.err # "" THEN value
        ELSE Parsed(ReturnExpr(value.node), value.pos)

parseUseStatement(tokens, pos) ==
    IF at(tokens, pos + 1).Type # "STRING"
    THEN ParseError("expected string after use", pos + 1)
    ELSE Parsed(UseStatement(at(tokens, pos + 1).Value), pos + 2)

\* The `;` after a statement is eaten whether or not the statement parsed;
\* on an error only the error is used.
parseStatement(tokens, pos) ==
    LET type == at(tokens, pos).Type
        returned ==
            CASE type \in {"OUT", "FN"} -> Parser("parseFunctionDeclaration", tokens, pos)
              [] type = "IF" -> Parser("parseIfStatement", tokens, pos)
              [] type = "WHILE" -> Parser("parseWhileStatement", tokens, pos)
              [] type = "FOR" -> Parser("parseForStatement", tokens, pos)
              [] type = "RETURN" -> Parser("parseReturnStatement", tokens, pos)
              [] type = "USE" -> Parser("parseUseStatement", tokens, pos)
              [] type = "NEWLINE" -> Parsed(NoNode, pos + 1)
              [] OTHER -> Parser("parseExpression", tokens, pos)
    IN  IF returned.err = "" /\ at(tokens, returned.pos).Type = "SEMICOLON"
        THEN Parsed(returned.node, returned.pos + 1)
        ELSE returned

Parser(method, tokens, pos) ==
    CASE method = "parseArrayLiteral" -> parseArrayLiteral(tokens, pos)
      [] method = "parseObjectLiteral" -> parseObjectLiteral(tokens, pos)
      [] method = "parseFunctionBody" -> parseFunctionBody(tokens, pos)
      [] method = "parseFunctionExpression" -> parseFunctionExpression(tokens, pos)
      [] method = "parsePrimaryExpression" -> parsePrimaryExpression(tokens, pos)
      [] method = "parseMemberExpression" -> parseMemberExpression(tokens, pos)
      [] method = "parseCallMemberExpression" -> parseCallMemberExpression(tokens, pos)
      [] method = "parseUnaryExpression" -> parseUnaryExpression(tokens, pos)
      [] method = "parseMultiplicativeExpression" -> parseMultiplicativeExpression(tokens, pos)
      [] method = "parseAdditiveExpression" -> parseAdditiveExpression(tokens, pos)
      [] method = "parseInequalityExpression" -> parseInequalityExpression(tokens, pos)
      [] method = "parseEqualityExpression" -> parseEqualityExpression(tokens, pos)
      [] method = "parseLogicalExpression" -> parseLogicalExpression(tokens, pos)
      [] method = "parseTernaryExpression" -> parseTernaryExpression(tokens, pos)
      [] method = "parseAssignmentExpression" -> parseAssignmentExpression(tokens, pos)
      [] method = "parseExpression" -> parseExpression(tokens, pos)
      [] method = "parseFunctionDeclaration" -> parseFunctionDeclaration(tokens, pos)
      [] method = "parseAlternate" -> parseAlternate(tokens, pos)
      [] method = "parseIfStatement" -> parseIfStatement(tokens, pos)
      [] method = "parseWhileStatement" -> parseWhileStatement(tokens, pos)
      [] method = "parseForStatement" -> parseForStatement(tokens, pos)
      [] method = "parseReturnStatement" -> parseReturnStatement(tokens, pos)
      [] method = "parseUseStatement" -> parseUseStatement(tokens, pos)
      [] method = "parseStatement" -> parseStatement(tokens, pos)

RECURSIVE ProduceASTLoop(_, _, _)
ProduceASTLoop(tokens, pos, body) ==
    IF isEOF(tokens, pos) THEN Parsed(Program(body), pos)
    ELSE LET stmt == Parser("parseStatement", tokens, pos)
         IN  IF stmt.err # "" THEN stmt
             ELSE ProduceASTLoop(tokens, stmt.pos,
                      IF stmt.node # NoNode THEN Append(body, stmt.node) ELSE body)

ProduceAST(tokens) == ProduceASTLoop(tokens, 1, <<>>)

-----------------------------------------------------------------------------
(* main.go, luna.go: the host *)

\* The root environment of main.go:69-70 after setupNativeFunctions, cut
\* down to one native function and one constant.
RootEnv ==
    [parent |-> NilEnv,
     variables |-> ("length" :> MakeNativeFunction("length")) @@ ("null" :> MakeNull),
     constants |-> {"length", "null"}]

Root == 1

\* Inputs, as the trees Parser.ProduceAST builds for the source text shown.

Num(n) == NumericLiteral(n)
Id(name) == Identifier(name)
Call0(name) == CallExpr(Identifier(name), <<>>)
Call1(name, arg) == CallExpr(Identifier(name), <<arg>>)

\* x: const = (1)
SrcDeclConst == Program(<<ActionAssignmentExpr(Id("x"), "const", Num(1))>>)
\* x = 2
SrcAssign == Program(<<AssignmentExpr(Id("x"), Num(2))>>)
\* x: var = (3)
SrcDeclVar == Program(<<ActionAssignmentExpr(Id("x"), "var", Num(3))>>)
\* fn setx { x = 2 }
\* setx()
SrcSetX ==
    Program(<<FunctionDeclaration("setx", <<>>, <<AssignmentExpr(Id("x"), Num(2))>>),
              Call0("setx")>>)
\* for i = 0; i < 2; i = i + 1 { x = 5 }
SrcForAssign ==
    Program(<<ForStatement(AssignmentExpr(Id("i"), Num(0)),
                           InequalityExpr(Id("i"), "<", Num(2)),
                           AssignmentExpr(Id("i"), BinaryExpr(Id("i"), "+", Num(1))),
                           <<AssignmentExpr(Id("x"), Num(5))>>)>>)
\* fn noret { 5 }
\* y = noret()
SrcNoRet ==
    Program(<<FunctionDeclaration("noret", <<>>, <<Num(5)>>),
              AssignmentExpr(Id("y"), Call0("noret"))>>)
\* fn early a {
\*   if a { while true { return 1 } } else { y = 8 }
\*   for i = 0; i < 2; i = i + 1 { if 0 < i { return 2 } }
\*   y = 9
\*   return 3
\* }
\* y = early(x)
SrcEarly ==
    Program(<<FunctionDeclaration("early", <<Parameter("a", NoNode)>>,
                <<IfStatement(Id("a"),
                      <<WhileStatement(BooleanLiteral(TRUE), <<ReturnExpr(Num(1))>>)>>,
                      <<AssignmentExpr(Id("y"), Num(8))>>),
                  ForStatement(AssignmentExpr(Id("i"), Num(0)),
                      InequalityExpr(Id("i"), "<", Num(2)),
                      AssignmentExpr(Id("i"), BinaryExpr(Id("i"), "+", Num(1))),
                      <<IfStatement(InequalityExpr(Num(0), "<", Id("i")),
                                    <<ReturnExpr(Num(2))>>, <<>>)>>),
                  AssignmentExpr(Id("y"), Num(9)),
                  ReturnExpr(Num(3))>>),
              AssignmentExpr(Id("y"), Call1("early", Id("x")))>>)
\* return 7
SrcTopReturn == Program(<<ReturnExpr(Num(7))>>)
\* if x { return x }
SrcTopIfReturn ==
    Program(<<IfStatement(Id("x"), <<ReturnExpr(Id("x"))>>, <<>>)>>)
\* fn mk a { return lambda b { a = a + b; return a } }
\* g = mk(1)
\* h = mk(2)
SrcMk ==
    Program(<<FunctionDeclaration("mk", <<Parameter("a", NoNode)>>,
                <<ReturnExpr(FunctionDeclaration("", <<Parameter("b", NoNode)>>,
                      <<AssignmentExpr(Id("a"), BinaryExpr(Id("a"), "+", Id("b"))),
                        ReturnExpr(Id("a"))>>))>>),
              AssignmentExpr(Id("g"), Call1("mk", Num(1))),
              AssignmentExpr(Id("h"), Call1("mk", Num(2)))>>)
\* g(0)
SrcCallG0 == Program(<<Call1("g", Num(0))>>)
\* g(1)
SrcCallG1 == Program(<<Call1("g", Num(1))>>)
\* h(0)
SrcCallH0 == Program(<<Call1("h", Num(0))>>)
\* y
SrcIdent == Program(<<Id("y")>>)
\* y = [x, z, length([x])]
SrcArray ==
    Program(<<AssignmentExpr(Id("y"),
                ArrayLiteral(<<Id("x"), Id("z"),
                               CallExpr(Id("length"), <<ArrayLiteral(<<Id("x")>>)>>)>>))>>)

Lines ==
    <<SrcDeclConst, SrcAssign, SrcDeclVar, SrcSetX, SrcForAssign, SrcNoRet,
      SrcEarly, SrcTopReturn, SrcTopIfReturn, SrcMk, SrcCallG0, SrcCallG1,
      SrcCallH0, SrcIdent, SrcArray>>

\* Statements the host evaluates directly in an environment of its choice.
EnvStmts ==
    <<ActionAssignmentExpr(Id("x"), "const", Num(1)),
      ActionAssignmentExpr(Id("x"), "var", Num(1)),
      AssignmentExpr(Id("x"), Num(2)),
      Id("x"),
      Id("z"),
      ActionAssignmentExpr(Id("x"), "var", Num(3))>>

NoOp == [kind |-> "init", env |-> NilEnv, line |-> 0]

Init ==
    /\ envs = <<RootEnv>>
    /\ heap = <<>>
    /\ result = [val |-> MakeVoid, err |-> ""]
    /\ trace = <<>>
    /\ op = NoOp
    /\ lines = 0

\* One turn of the REPL loop (main.go:106-107): Luna.Evaluate of one input
\* against the long-lived root environment.
REPLLine(i) ==
    /\ lines < MaxLines
    /\ LET r == Evaluate(Lines[i], Root, NewStore(envs, heap))
       IN  /\ envs' = r.st.envs
           /\ heap' = r.st.heap
           /\ result' = [val |-> r.val, err |-> r.err]
           /\ trace' = r.st.trace
    /\ op' = [kind |-> "repl", env |-> Root, line |-> i]
    /\ lines' = lines + 1

Next == \E i \in 1..Len(Lines) : REPLLine(i)

Spec == Init /\ [][Next]_vars

\* The host interface of the environment: NewEnvironment(parent), Evaluate of
\* a statement in any environment, and AssignVar.
NewEnvironmentOp(p) ==
    /\ Len(envs) < MaxEnvs
    /\ envs' = NewEnvironment(envs, p)
    /\ result' = [val |-> MakeVoid, err |-> ""]
    /\ trace' = <<>>
    /\ op' = [kind |-> "NewEnvironment", env |-> p, line |-> 0]
    /\ UNCHANGED <<heap, lines>>

EvaluateOp(e, i) ==
    /\ LET r == Evaluate(EnvStmts[i], e, NewStore(envs, heap))
       IN  /\ envs' = r.st.envs
           /\ heap' = r.st.heap
           /\ result' = [val |-> r.val, err |-> r.err]
           /\ trace' = r.st.trace
    /\ op' = [kind |-> "Evaluate", env |-> e, line |-> i]
    /\ UNCHANGED lines

AssignVarOp(e) ==
    /\ envs' = AssignVar(envs, e, "x", MakeNumber(2))
    /\ result' = [val |-> MakeNumber(2), err |-> ""]
    /\ trace' = <<>>
    /\ op' = [kind |-> "AssignVar", env |-> e, line |-> 0]
    /\ UNCHANGED <<heap, lines>>

NextEnv ==
    \/ \E p \in 1..Len(envs) : NewEnvironmentOp(p)
    \/ \E e \in 1..Len(envs), i \in 1..Len(EnvStmts) : EvaluateOp(e, i)
    \/ \E e \in 1..Len(envs) : AssignVarOp(e)

SpecEnv == Init /\ [][NextEnv]_vars

-----------------------------------------------------------------------------
(* Source texts, as the token streams Tokenize builds for them *)

tId(name) == Token("IDENTIFIER", name)
tInt(text) == Token("INT", text)
tStr(text) == Token("STRING", text)
tTrue == Token("BOOLEAN", "true")
tUndef == Token("UNDEFINED", "undef")
tFn == Token("FN", "fn")
tLambda == Token("LAMBDA", "lambda")
tIf == Token("IF", "if")
tElse == Token("ELSE", "else")
tWhile == Token("WHILE", "while")
tFor == Token("FOR", "for")
tReturn == Token("RETURN", "return")
tPlus == Token("BINARY_OPERATOR", "+")
tMinus == Token("BINARY_OPERATOR", "-")
tStar == Token("BINARY_OPERATOR", "*")
tAssign == Token("EQUALS", "=")
tEq == Token("EQUALITY_OP", "==")
tNe == Token("INEQUALITY_OP", "!=")
tLt == Token("SMALLER_THAN", "<")
tInc == Token("INCREMENT", "++")
tDec == Token("DECREMENT", "--")
tComma == Token("COMMA", ",")
tColon == Token("COLON", ":")
tSemi == Token("SEMICOLON", ";")
tLParen == Token("OPEN_PAREN", "(")
tRParen == Token("CLOSE_PAREN", ")")
tLBrace == Token("OPEN_BRACE", "{")
tRBrace == Token("CLOSE_BRACE", "}")
tLBracket == Token("OPEN_BRACKET", "[")
tRBracket == Token("CLOSE_BRACKET", "]")
tDot == Token("DOT", ".")
tUse == Token("USE", "use")

\* Tokenize ends every stream with one EOF token (tokenizer.go:220).
Tokens(stream) == Append(stream, EOFToken)

\* fn f a=(10) { return a }
DeclF ==
    <<tFn, tId("f"), tId("a"), tAssign, tLParen, tInt("10"), tRParen,
      tLBrace, tReturn, tId("a"), tRBrace, tSemi>>
\* fn f a=(10) { return a }; f()
SrcDefaultUsed == Tokens(DeclF \o <<tId("f"), tLParen, tRParen>>)
\* fn f a=(10) { return a }; f(3)
SrcDefaultUnused == Tokens(DeclF \o <<tId("f"), tLParen, tInt("3"), tRParen>>)
\* fn g a b=(a) { return b }; g(1)
SrcDefaultSeesNoParam ==
    Tokens(<<tFn, tId("g"), tId("a"), tId("b"), tAssign, tLParen, tId("a"), tRParen,
             tLBrace, tReturn, tId("b"), tRBrace, tSemi,
             tId("g"), tLParen, tInt("1"), tRParen>>)
\* fn u a b { return b }; u(1)
SrcNoDefault ==
    Tokens(<<tFn, tId("u"), tId("a"), tId("b"),
             tLBrace, tReturn, tId("b"), tRBrace, tSemi,
             tId("u"), tLParen, tInt("1"), tRParen>>)
\* fn h a=(k) { return a }; k = 1; fn c k { return h() }; c(5)
SrcDefaultNotCallSite ==
    Tokens(<<tFn, tId("h"), tId("a"), tAssign, tLParen, tId("k"), tRParen,
             tLBrace, tReturn, tId("a"), tRBrace, tSemi,
             tId("k"), tAssign, tInt("1"), tSemi,
             tFn, tId("c"), tId("k"),
             tLBrace, tReturn, tId("h"), tLParen, tRParen, tRBrace, tSemi,
             tId("c"), tLParen, tInt("5"), tRParen>>)
\* fn s a=(k = 9) { return a }
DeclS ==
    <<tFn, tId("s"), tId("a"), tAssign, tLParen, tId("k"), tAssign, tInt("9"),
      tRParen, tLBrace, tReturn, tId("a"), tRBrace, tSemi>>
\* fn s a=(k = 9) { return a }; s(3)
SrcDefaultNotRun == Tokens(DeclS \o <<tId("s"), tLParen, tInt("3"), tRParen>>)
\* fn s a=(k = 9) { return a }; s()
SrcDefaultRun == Tokens(DeclS \o <<tId("s"), tLParen, tRParen>>)
\* a = 4
SrcBindA == Tokens(<<tId("a"), tAssign, tInt("4")>>)

\* x: var = (5)
SrcVarX ==
    Tokens(<<tId("x"), tColon, tId("var"), tAssign, tLParen, tInt("5"), tRParen>>)
\* x: const = (5)
SrcConstX ==
    Tokens(<<tId("x"), tColon, tId("const"), tAssign, tLParen, tInt("5"), tRParen>>)
\* x = true
SrcBoolX == Tokens(<<tId("x"), tAssign, tTrue>>)
\* x++
SrcPostInc == Tokens(<<tId("x"), tInc>>)
\* x--
SrcPostDec == Tokens(<<tId("x"), tDec>>)
\* ++x
SrcPreInc == Tokens(<<tInc, tId("x")>>)
\* --x
SrcPreDec == Tokens(<<tDec, tId("x")>>)
\* fn inc { return x++ }; inc()
SrcIncInCall ==
    Tokens(<<tFn, tId("inc"), tLBrace, tReturn, tId("x"), tInc, tRBrace, tSemi,
             tId("inc"), tLParen, tRParen>>)
\* 5++
SrcIncLiteral == Tokens(<<tInt("5"), tInc>>)
\* ++[x][0]
SrcIncMember ==
    Tokens(<<tInc, tLBracket, tId("x"), tRBracket, tLBracket, tInt("0"), tRBracket>>)

\* a = [1, 2]
DeclArr ==
    <<tId("a"), tAssign, tLBracket, tInt("1"), tComma, tInt("2"), tRBracket, tSemi>>
\* a[<index>] = 9
StoreAt(index) ==
    <<tId("a"), tLBracket, tInt(index), tRBracket, tAssign, tInt("9")>>
\* a = [1, 2]; b = a
SrcArr == Tokens(DeclArr \o <<tId("b"), tAssign, tId("a")>>)
\* a[0] = 9
SrcStoreFirst == Tokens(StoreAt("0"))
\* a[2] = 9
SrcStoreAtLength == Tokens(StoreAt("2"))
\* a = [1, 2]; a[5] = 9
SrcStorePastLength == Tokens(DeclArr \o StoreAt("5"))

\* for i = 0; i < 2; i = i + 1 { j = i }
SrcFor ==
    Tokens(<<tFor, tId("i"), tAssign, tInt("0"), tSemi,
             tId("i"), tLt, tInt("2"), tSemi,
             tId("i"), tAssign, tId("i"), tPlus, tInt("1"),
             tLBrace, tId("j"), tAssign, tId("i"), tRBrace>>)
\* for i = 3; i < 2; i = i + 1 { j = i }
SrcForNever ==
    Tokens(<<tFor, tId("i"), tAssign, tInt("3"), tSemi,
             tId("i"), tLt, tInt("2"), tSemi,
             tId("i"), tAssign, tId("i"), tPlus, tInt("1"),
             tLBrace, tId("j"), tAssign, tId("i"), tRBrace>>)
\* j = 7
SrcBindJ == Tokens(<<tId("j"), tAssign, tInt("7")>>)

\* if 0 < 1 { p = 1 } else { q = 2 }; p
SrcIfThen ==
    Tokens(<<tIf, tInt("0"), tLt, tInt("1"),
             tLBrace, tId("p"), tAssign, tInt("1"), tRBrace,
             tElse, tLBrace, tId("q"), tAssign, tInt("2"), tRBrace, tSemi,
             tId("p")>>)
\* if 1 < 0 { p = 1 } else { q: var = (2) }
SrcIfElse ==
    Tokens(<<tIf, tInt("1"), tLt, tInt("0"),
             tLBrace, tId("p"), tAssign, tInt("1"), tRBrace,
             tElse, tLBrace, tId("q"), tColon, tId("var"), tAssign,
             tLParen, tInt("2"), tRParen, tRBrace>>)
\* w = 0; while w < 2 { w = w + 1; r: var = (w) }
SrcWhile ==
    Tokens(<<tId("w"), tAssign, tInt("0"), tSemi,
             tWhile, tId("w"), tLt, tInt("2"),
             tLBrace, tId("w"), tAssign, tId("w"), tPlus, tInt("1"), tSemi,
             tId("r"), tColon, tId("var"), tAssign, tLParen, tId("w"), tRParen,
             tRBrace>>)
\* fn t { if 0 < 1 { m = 1 }; return m }; t()
SrcIfInCall ==
    Tokens(<<tFn, tId("t"), tLBrace,
             tIf, tInt("0"), tLt, tInt("1"),
             tLBrace, tId("m"), tAssign, tInt("1"), tRBrace, tSemi,
             tReturn, tId("m"), tRBrace, tSemi,
             tId("t"), tLParen, tRParen>>)

\* 1 + 2 * 3
SrcPrecedence == Tokens(<<tInt("1"), tPlus, tInt("2"), tStar, tInt("3")>>)
\* (1 + 2) * 3
SrcParenthesized ==
    Tokens(<<tLParen, tInt("1"), tPlus, tInt("2"), tRParen, tStar, tInt("3")>>)
\* 7 - 2 - 1
SrcLeftAdditive == Tokens(<<tInt("7"), tMinus, tInt("2"), tMinus, tInt("1")>>)
\* 2 * 3 * 2 + 1 - 4
SrcLeftMultiplicative ==
    Tokens(<<tInt("2"), tStar, tInt("3"), tStar, tInt("2"), tPlus, tInt("1"),
             tMinus, tInt("4")>>)

Sources ==
    <<SrcDefaultUsed, SrcDefaultUnused, SrcDefaultSeesNoParam, SrcNoDefault,
      SrcDefaultNotCallSite, SrcDefaultNotRun, SrcDefaultRun, SrcBindA,
      SrcVarX, SrcConstX, SrcBoolX, SrcPostInc, SrcPostDec, SrcPreInc, SrcPreDec,
      SrcIncInCall, SrcIncLiteral, SrcIncMember,
      SrcArr, SrcStoreFirst, SrcStoreAtLength, SrcStorePastLength,
      SrcFor, SrcForNever, SrcBindJ,
      SrcIfThen, SrcIfElse, SrcWhile, SrcIfInCall,
      SrcPrecedence, SrcParenthesized, SrcLeftAdditive, SrcLeftMultiplicative>>

\* `if err != nil { return nil, err }` after Parse, then EvaluateAST.
EvaluateParsed(ast, e, st) ==
    IF ast.err # "" THEN Fail(ast.err, st) ELSE Evaluate(ast.node, e, st)

\* Luna.Evaluate on a token stream: Parse, then EvaluateAST against env.
LunaEvaluate(tokens, e, es, hp) ==
    EvaluateParsed(ProduceAST(tokens), e, NewStore(es, hp))

\* Luna.Evaluate when the Go runtime ranges over maps in the order `order`.
LunaEvaluateOrdered(tokens, e, es, hp, order) ==
    EvaluateParsed(ProduceAST(tokens), e, [NewStore(es, hp) EXCEPT !.order = order])

\* A panic ended the host process.
Crashed == IsPanic(result.err)

\* One turn of the REPL loop on source text i.
EvaluateSource(i) ==
    /\ lines < MaxSrc
    /\ ~Crashed
    /\ \E r \in {LunaEvaluate(Sources[i], Root, envs, heap)} :
           /\ envs' = r.st.envs
           /\ heap' = r.st.heap
           /\ result' = [val |-> r.val, err |-> r.err]
           /\ trace' = r.st.trace
    /\ op' = [kind |-> "src", env |-> Root, line |-> i]
    /\ lines' = lines + 1

NextSrc == \E i \in 1..Len(Sources) : EvaluateSource(i)

SpecSrc == Init /\ [][NextSrc]_vars

-----------------------------------------------------------------------------
(* Syntactic forms, each given to a freshly started interpreter *)

tFalse == Token("BOOLEAN", "false")

\* An operand of a comparison: the statements that prepare it and the
\* expression that denotes it.
\*   1   2   true   false   "a"   "1"   null   undef   (lambda { })()
\*   [1]   {k: 1}   a = [1]; a   o = {k: 1}; o
Operands ==
    <<[pre |-> <<>>, expr |-> <<tInt("1")>>],
      [pre |-> <<>>, expr |-> <<tInt("2")>>],
      [pre |-> <<>>, expr |-> <<tTrue>>],
      [pre |-> <<>>, expr |-> <<tFalse>>],
      [pre |-> <<>>, expr |-> <<tStr("a")>>],
      [pre |-> <<>>, expr |-> <<tStr("1")>>],
      [pre |-> <<>>, expr |-> <<tId("null")>>],
      [pre |-> <<>>, expr |-> <<tUndef>>],
      [pre |-> <<>>,
       expr |-> <<tLParen, tLambda, tLBrace, tRBrace, tRParen, tLParen, tRParen>>],
      [pre |-> <<>>, expr |-> <<tLBracket, tInt("1"), tRBracket>>],
      [pre |-> <<>>, expr |-> <<tLBrace, tId("k"), tColon, tInt("1"), tRBrace>>],
      [pre |-> <<tId("a"), tAssign, tLBracket, tInt("1"), tRBracket, tSemi>>,
       expr |-> <<tId("a")>>],
      [pre |-> <<tId("o"), tAssign, tLBrace, tId("k"), tColon, tInt("1"), tRBrace,
                 tSemi>>,
       expr |-> <<tId("o")>>]>>

EqualityOperators == {tEq, tNe}

\* pre(i) pre(j) expr(i) operator expr(j), the preparation once when both
\* sides are the same operand.
EqualitySource(i, j, operator) ==
    Tokens(Operands[i].pre \o (IF i = j THEN <<>> ELSE Operands[j].pre)
             \o Operands[i].expr \o <<operator>> \o Operands[j].expr)

\*   x   0 < 1   true
Conditions ==
    <<<<tId("x")>>, <<tInt("0"), tLt, tInt("1")>>, <<tTrue>>>>

\*   y = 1   y   1 + 2
Statements ==
    <<<<tId("y"), tAssign, tInt("1")>>, <<tId("y")>>,
      <<tInt("1"), tPlus, tInt("2")>>>>

\* keyword cond : stmt
ColonSource(keyword, c, s) ==
    Tokens(<<keyword>> \o Conditions[c] \o <<tColon>> \o Statements[s])

\*   5   1 + 2   "a"
Invoked ==
    <<<<tInt("5")>>, <<tInt("1"), tPlus, tInt("2")>>, <<tStr("a")>>>>

\* keyword :: expr  at the start of a statement, or  r = keyword :: expr
InvokedSource(keyword, inExpression, x) ==
    Tokens((IF inExpression THEN <<tId("r"), tAssign>> ELSE <<>>)
             \o <<keyword, tColon, tColon>> \o Invoked[x])

\* One program for each kind of statement and expression parseStatement can
\* return on the tokens above.
\*   use "lib"   a = [1]; a[0]   o = {k: 1}; o.k   x: var = (1)   -1
\*   1 == 1   fn f { return 1 }; f()   if true { 1 }   while false { 1 }
\*   for i = 0; i < 1; i = i + 1 { i }   "s"   true   undef   f
NodeKinds ==
    <<<<tUse, tStr("lib")>>,
      <<tId("a"), tAssign, tLBracket, tInt("1"), tRBracket, tSemi,
        tId("a"), tLBracket, tInt("0"), tRBracket>>,
      <<tId("o"), tAssign, tLBrace, tId("k"), tColon, tInt("1"), tRBrace, tSemi,
        tId("o"), tDot, tId("k")>>,
      <<tId("x"), tColon, tId("var"), tAssign, tLParen, tInt("1"), tRParen>>,
      <<tMinus, tInt("1")>>,
      <<tInt("1"), tEq, tInt("1")>>,
      <<tFn, tId("f"), tLBrace, tReturn, tInt("1"), tRBrace, tSemi,
        tId("f"), tLParen, tRParen>>,
      <<tIf, tTrue, tLBrace, tInt("1"), tRBrace>>,
      <<tWhile, tFalse, tLBrace, tInt("1"), tRBrace>>,
      <<tFor, tId("i"), tAssign, tInt("0"), tSemi, tId("i"), tLt, tInt("1"), tSemi,
        tId("i"), tAssign, tId("i"), tPlus, tInt("1"),
        tLBrace, tId("i"), tRBrace>>,
      <<tStr("s")>>, <<tTrue>>, <<tUndef>>, <<tId("f")>>>>

\* The texts of string literals: the arithmetic operators and two others.
StringTexts == <<"+", "-", "*", "/", "%", "**", "a", "=">>

\* "text"  as a whole statement, or  x = "text"
StringSource(t, inAssignment) ==
    Tokens((IF inAssignment THEN <<tId("x"), tAssign>> ELSE <<>>)
             \o <<tStr(StringTexts[t])>>)

\* Bodies of a function f whose parameter is named a.
\*   a   a = 9   a: var = (7)   a = 9; a
ShadowBodies ==
    <<<<tId("a")>>,
      <<tId("a"), tAssign, tInt("9")>>,
      <<tId("a"), tColon, tId("var"), tAssign, tLParen, tInt("7"), tRParen>>,
      <<tId("a"), tAssign, tInt("9"), tSemi, tId("a")>>>>

\* fn f a { body }; f(5)   or   fn f a { body }; f()
ShadowCall(b, withArgument) ==
    <<tFn, tId("f"), tId("a"), tLBrace>> \o ShadowBodies[b] \o <<tRBrace, tSemi>>
      \o <<tId("f"), tLParen>>
      \o (IF withArgument THEN <<tInt("5")>> ELSE <<>>) \o <<tRParen>>

\* The enclosing binding of a:
\*   "var"        a = 1; <call>
\*   "const"      a: const = (1); <call>
\*   "parameter"  fn o a { <call>; return a }; o(1)
ShadowOuters == {"var", "const", "parameter"}

ShadowSource(outer, b, withArgument) ==
    Tokens(CASE outer = "var" ->
                    <<tId("a"), tAssign, tInt("1"), tSemi>>
                      \o ShadowCall(b, withArgument)
             [] outer = "const" ->
                    <<tId("a"), tColon, tId("const"), tAssign,
                      tLParen, tInt("1"), tRParen, tSemi>>
                      \o ShadowCall(b, withArgument)
             [] outer = "parameter" ->
                    <<tFn, tId("o"), tId("a"), tLBrace>>
                      \o ShadowCall(b, withArgument)
                      \o <<tSemi, tReturn, tId("a"), tRBrace, tSemi,
                           tId("o"), tLParen, tInt("1"), tRParen>>)

\* Declarations of a function g and the arguments it is called with.
\*   fn g a { return a + 1 }   (1)
\*   fn g a { a + 1 }          (1)
\*   fn g a { k = a }          (1)
\*   fn g { return 7 }         ()
\*   fn g a b { return a - b } (7, 2)
Callees ==
    <<[decl |-> <<tFn, tId("g"), tId("a"),
                  tLBrace, tReturn, tId("a"), tPlus, tInt("1"), tRBrace>>,
       args |-> <<tInt("1")>>],
      [decl |-> <<tFn, tId("g"), tId("a"),
                  tLBrace, tId("a"), tPlus, tInt("1"), tRBrace>>,
       args |-> <<tInt("1")>>],
      [decl |-> <<tFn, tId("g"), tId("a"),
                  tLBrace, tId("k"), tAssign, tId("a"), tRBrace>>,
       args |-> <<tInt("1")>>],
      [decl |-> <<tFn, tId("g"), tLBrace, tReturn, tInt("7"), tRBrace>>,
       args |-> <<>>],
      [decl |-> <<tFn, tId("g"), tId("a"), tId("b"),
                  tLBrace, tReturn, tId("a"), tMinus, tId("b"), tRBrace>>,
       args |-> <<tInt("7"), tComma, tInt("2")>>]>>

\* decl; g(args)   or   decl; g.call(args)
CallSource(c, viaCall) ==
    Tokens(Callees[c].decl \o <<tSemi, tId("g")>>
             \o (IF viaCall THEN <<tDot, tId("call")>> ELSE <<>>)
             \o <<tLParen>> \o Callees[c].args \o <<tRParen>>)

\* Programs with interpolated strings.
\*   a = "x"; "{a}"
\*   a = "{b}"; b = "x"; "{a}"
\*   a = "x"; b = "x"; "{a}{b}"
\*   "{a}"
\*   a = "x"; "x{a}"
\*   b = "x"; fn f a { return "{a}{b}" }; f("x")
Interpolations ==
    <<<<tId("a"), tAssign, tStr("x"), tSemi, tStr("{a}")>>,
      <<tId("a"), tAssign, tStr("{b}"), tSemi, tId("b"), tAssign, tStr("x"), tSemi,
        tStr("{a}")>>,
      <<tId("a"), tAssign, tStr("x"), tSemi, tId("b"), tAssign, tStr("x"), tSemi,
        tStr("{a}{b}")>>,
      <<tStr("{a}")>>,
      <<tId("a"), tAssign, tStr("x"), tSemi, tStr("x{a}")>>,
      <<tId("b"), tAssign, tStr("x"), tSemi,
        tFn, tId("f"), tId("a"), tLBrace, tReturn, tStr("{a}{b}"), tRBrace, tSemi,
        tId("f"), tLParen, tStr("x"), tRParen>>>>

\* The orders in which a range over a map with the keys a and b can visit
\* them; the other keys have no placeholder in these programs.
MapOrders == {<<"a", "b">>, <<"b", "a">>}

\* Luna.Evaluate of one source text as the first input of the REPL.
EvaluateForm(tokens, form) ==
    /\ lines = 0
    /\ \E r \in {LunaEvaluate(tokens, Root, envs, heap)} :
           /\ envs' = r.st.envs
           /\ heap' = r.st.heap
           /\ result' = [val |-> r.val, err |-> r.err]
           /\ trace' = r.st.trace
    /\ op' = form
    /\ lines' = 1

EvaluateEquality(i, j, operator) ==
    EvaluateForm(EqualitySource(i, j, operator),
                 [kind |-> "equality", env |-> Root,
                  line |-> <<i, j, operator.Value>>])

EvaluateColonForm(keyword, c, s) ==
    EvaluateForm(ColonSource(keyword, c, s),
                 [kind |-> "colon", env |-> Root,
                  line |-> <<keyword.Value, c, s>>])

EvaluateInvoked(keyword, inExpression, x) ==
    EvaluateForm(InvokedSource(keyword, inExpression, x),
                 [kind |-> "invoked", env |-> Root,
                  line |-> <<keyword.Value, inExpression, x>>])

EvaluateNodeKind(k) ==
    EvaluateForm(Tokens(NodeKinds[k]),
                 [kind |-> "node", env |-> Root, line |-> <<k>>])

EvaluateStringOperand(t, inAssignment) ==
    EvaluateForm(StringSource(t, inAssignment),
                 [kind |-> "string", env |-> Root, line |-> <<t, inAssignment>>])

EvaluateShadowing(outer, b, withArgument) ==
    EvaluateForm(ShadowSource(outer, b, withArgument),
                 [kind |-> "shadow", env |-> Root,
                  line |-> <<outer, b, withArgument>>])

EvaluateCall(c, viaCall) ==
    EvaluateForm(CallSource(c, viaCall),
                 [kind |-> "call", env |-> Root, line |-> <<c, viaCall>>])

\* Luna.Evaluate of a program with interpolated strings, in a run of the
\* interpreter whose map ranges visit the keys in the order `order`.
EvaluateInterpolation(i, order) ==
    /\ lines = 0
    /\ \E r \in {LunaEvaluateOrdered(Tokens(Interpolations[i]), Root, envs, heap,
                                      order)} :
           /\ envs' = r.st.envs
           /\ heap' = r.st.heap
           /\ result' = [val |-> r.val, err |-> r.err]
           /\ trace' = r.st.trace
    /\ op' = [kind |-> "interpolate", env |-> Root, line |-> <<i, order>>]
    /\ lines' = 1

NextForms ==
    \/ \E k \in 1..Len(NodeKinds) : EvaluateNodeKind(k)
    \/ \E i \in 1..Len(Interpolations), order \in MapOrders :
           EvaluateInterpolation(i, order)
    \/ \E c \in 1..Len(Callees), viaCall \in BOOLEAN : EvaluateCall(c, viaCall)
    \/ \E outer \in ShadowOuters, b \in 1..Len(ShadowBodies),
          withArgument \in BOOLEAN :
           EvaluateShadowing(outer, b, withArgument)
    \/ \E t \in 1..Len(StringTexts), inAssignment \in BOOLEAN :
           EvaluateStringOperand(t, inAssignment)
    \/ \E i, j \in 1..Len(Operands), operator \in EqualityOperators :
           EvaluateEquality(i, j, operator)
    \/ \E keyword \in {tIf, tWhile}, c \in 1..Len(Conditions),
          s \in 1..Len(Statements) :
           EvaluateColonForm(keyword, c, s)
    \/ \E keyword \in {tFn, tLambda}, inExpression \in BOOLEAN,
          x \in 1..Len(Invoked) :
           EvaluateInvoked(keyword, inExpression, x)

SpecForms == Init /\ [][NextForms]_vars

-----------------------------------------------------------------------------
(* Texts, each given to Tokenize on its own *)

\* The characters of the texts: two letters, a digit, two operators, the two
\* kinds of white space, the quote, the comment sign, a punctuation mark and
\* a character no token starts with.
Alphabet == {"i", "f", "1", "=", "-", " ", "\n", "\"", "#", ".", "@"}

Inputs == UNION {[1..n -> Alphabet] : n \in 0..MaxInput}

\* NewTokenizer(input).Tokenize(): result holds the tokens or the error,
\* trace the iterations of the loop.
TokenizeInput(input) ==
    /\ \E r \in {Tokenize(input)} :
           /\ result' = [val |-> r.tokens, err |-> r.err]
           /\ trace' = r.steps
    /\ op' = [kind |-> "tokenize", env |-> NilEnv, line |-> input]
    /\ lines' = 1
    /\ UNCHANGED <<envs, heap>>

\* Each behaviour tokenizes one text.
NextTok ==
    /\ lines = 0
    /\ \E input \in Inputs : TokenizeInput(input)

SpecTok == Init /\ [][NextTok]_vars

-----------------------------------------------------------------------------
(* Vocabulary of the properties *)

\* The environments visible from e: e and its ancestors.
RECURSIVE Scope(_, _, _)
Scope(es, e, budget) ==
    IF e = NilEnv \/ budget = 0 THEN {}
    ELSE {e} \cup Scope(es, es[e].parent, budget - 1)

Visible(es, e) == Scope(es, e, Len(es))

Holders(es, e, name) == {a \in Visible(es, e) : name \in DOMAIN es[a].variables}

Bound(es, e, name) == Holders(es, e, name) # {}

\* A parent is allocated before its children, so the innermost holder is
\* the one with the greatest address.
Innermost(es, e, name) ==
    CHOOSE h \in Holders(es, e, name) : \A a \in Holders(es, e, name) : a <= h

ConstantReachable(es, e, name) == \E a \in Visible(es, e) : name \in es[a].constants

AssignX == AssignmentExpr(Id("x"), Num(2))
DeclConstX == ActionAssignmentExpr(Id("x"), "const", Num(1))

EvaluatedIn(o, stmt) == o.kind = "Evaluate" /\ EnvStmts[o.line] = stmt

Ran(o, src) == o.kind = "repl" /\ Lines[o.line] = src

SrcRan(o, src) == o.kind = "src" /\ Sources[o.line] = src

Returns(r, v) == r = [val |-> v, err |-> ""]

-----------------------------------------------------------------------------
(* C1 *)

\* C1: evaluating `x: const = (1)` in an environment binds x to 1 there and
\* marks it constant; from then on every evaluation of the plain assignment
\* `x = 2` in that same environment succeeds, changes no environment and
\* leaves the lookup of x from it as it was.
C1_ConstantProtection ==
    [][/\ EvaluatedIn(op', DeclConstX) =>
             /\ result'.err = ""
             /\ LookupVar(envs', op'.env, "x") = MakeNumber(1)
             /\ "x" \in envs'[op'.env].constants
       /\ (EvaluatedIn(op', AssignX) /\ "x" \in envs[op'.env].constants) =>
             /\ result'.err = ""
             /\ envs' = envs
             /\ LookupVar(envs', op'.env, "x") = LookupVar(envs, op'.env, "x")
      ]_vars

\* `x = 2` was just evaluated where x is the constant 1, and x is still 1.
C1_Witness ==
    /\ EvaluatedIn(op, AssignX)
    /\ "x" \in envs[op.env].constants
    /\ result = [val |-> MakeNumber(2), err |-> ""]
    /\ LookupVar(envs, op.env, "x") = MakeNumber(1)

-----------------------------------------------------------------------------
(* C2 *)

\* C2: AssignVar(name, value) on an environment from which name is constant
\* anywhere reachable (marked on it or on any ancestor) has no observable
\* effect: every lookup of name is as before and no binding is created.
C2_ReachableConstantUntouched ==
    [][((op'.kind = "AssignVar" \/ EvaluatedIn(op', AssignX))
            /\ ConstantReachable(envs, op'.env, "x")) =>
           \A e \in 1..Len(envs) :
               /\ LookupVar(envs', e, "x") = LookupVar(envs, e, "x")
               /\ DOMAIN envs'[e].variables = DOMAIN envs[e].variables
      ]_vars

-----------------------------------------------------------------------------
(* C3 *)

\* C3: a call whose body ends without evaluating a return statement hands
\* back void; a call in which a return statement was evaluated hands back
\* the value that return wrapped.
C3_CallResult ==
    \A j \in 1..Len(trace) :
        trace[j].k = "exit" =>
            LET rets == {i \in 1..(j - 1) :
                             trace[i].k = "ret" /\ trace[i].call = trace[j].call}
            IN  IF rets = {}
                THEN trace[j].v = MakeVoid
                ELSE \E i \in rets : trace[j].v = trace[i].v

-----------------------------------------------------------------------------
(* C4 *)

\* C4: once a return statement has been evaluated during a function call,
\* at any depth of if / else / while / for inside the body, the very next
\* step of the evaluation is that call handing back exactly the returned
\* value: no statement, loop test or for-increment of the call runs after it.
C4_ReturnPropagation ==
    \A i \in 1..Len(trace) :
        (trace[i].k = "ret" /\ trace[i].call # NilEnv) =>
            /\ i < Len(trace)
            /\ trace[i + 1] = [k |-> "exit", call |-> trace[i].call, v |-> trace[i].v]
            /\ \A j \in (i + 2)..Len(trace) : trace[j].call # trace[i].call

\* A return was evaluated inside an if inside a for loop that had already
\* run its increment, in a call.
C4_Witness ==
    \E i \in 1..Len(trace) :
        /\ trace[i].k = "ret"
        /\ trace[i].call # NilEnv
        /\ \E j \in 1..(i - 1) : trace[j].k = "incr" /\ trace[j].call = trace[i].call

-----------------------------------------------------------------------------
(* C5 *)

\* C5: the value Evaluate hands the host for a program is never a
\* return-signal.
C5_NoReturnSignalToHost ==
    op.kind = "repl" => result.val.tag # RETURN_TYPE

-----------------------------------------------------------------------------
(* C6 *)

\* v is a return-signal, or the argument list of a call that holds one.
HoldsReturn(v) ==
    \/ v.tag = RETURN_TYPE
    \/ /\ v.tag = "args"
       /\ \E i \in 1..Len(v.Elements) : v.Elements[i].tag = RETURN_TYPE

-----------------------------------------------------------------------------
(* C7 *)

\* name is bound in the root to a function made by mk: its declaration
\* environment is the environment of that call of mk and binds a.
IsClosure(es, name) ==
    /\ name \in DOMAIN es[Root].variables
    /\ es[Root].variables[name].tag = FUNCTION_TYPE
    /\ "a" \in DOMAIN es[es[Root].variables[name].DeclarationEnv].variables

CapturedEnv(es, name) == es[Root].variables[name].DeclarationEnv

\* C7: each call of mk makes a new environment holding its parameter a, and
\* the function it returns keeps that environment: g = mk(1) and h = mk(2)
\* capture two distinct new environments binding a to 1 and to 2; a later
\* call g(b) or h(b) reads a from the captured environment, writes a + b
\* back into it, returns it, and changes no other environment that existed.
C7_Closures ==
    [][/\ Ran(op', SrcMk) =>
             /\ result'.err = ""
             /\ IsClosure(envs', "g")
             /\ IsClosure(envs', "h")
             /\ CapturedEnv(envs', "g") > Len(envs)
             /\ CapturedEnv(envs', "h") > Len(envs)
             /\ CapturedEnv(envs', "g") # CapturedEnv(envs', "h")
             /\ envs'[CapturedEnv(envs', "g")].variables["a"] = MakeNumber(1)
             /\ envs'[CapturedEnv(envs', "h")].variables["a"] = MakeNumber(2)
       /\ \A name \in {"g", "h"}, b \in {0, 1} :
             (Ran(op', Program(<<Call1(name, Num(b))>>)) /\ IsClosure(envs, name)) =>
                 LET d == CapturedEnv(envs, name)
                     n == envs[d].variables["a"].Value
                 IN  /\ result' = [val |-> MakeNumber(n + b), err |-> ""]
                     /\ envs'[d].variables["a"] = MakeNumber(n + b)
                     /\ \A e \in 1..Len(envs) : e # d => envs'[e] = envs[e]
      ]_vars

\* h(0) just returned the 2 bound when mk(2) was called, although g has
\* since raised its own a to 3.
C7_Witness ==
    /\ Ran(op, SrcCallH0)
    /\ result = [val |-> MakeNumber(2), err |-> ""]
    /\ IsClosure(envs, "g")
    /\ envs[CapturedEnv(envs, "g")].variables["a"] = MakeNumber(3)

-----------------------------------------------------------------------------
(* C8 *)

\* C8 as stated: `x = 2` evaluated in e mutates the innermost binding of x
\* visible from e, in the environment that holds it, if there is one, and
\* otherwise creates a non-constant binding in e; nothing else changes.
C8_AssignmentFrame ==
    [][EvaluatedIn(op', AssignX) =>
           IF Bound(envs, op'.env, "x")
           THEN envs' = [envs EXCEPT
                    ![Innermost(envs, op'.env, "x")].variables["x"] = MakeNumber(2)]
           ELSE envs' = [envs EXCEPT
                    ![op'.env].variables = ("x" :> MakeNumber(2)) @@ @]
      ]_vars

\* C8 amended: as C8, except that when x is marked constant in e itself the
\* assignment changes no environment at all.
C8_AssignmentFrameUnlessLocalConstant ==
    [][EvaluatedIn(op', AssignX) =>
           IF "x" \in envs[op'.env].constants
           THEN envs' = envs
           ELSE IF Bound(envs, op'.env, "x")
           THEN envs' = [envs EXCEPT
                    ![Innermost(envs, op'.env, "x")].variables["x"] = MakeNumber(2)]
           ELSE envs' = [envs EXCEPT
                    ![op'.env].variables = ("x" :> MakeNumber(2)) @@ @]
      ]_vars

\* `x = 2` was just evaluated in an environment that does not bind x
\* itself: the binding it wrote is an ancestor's.
C8_Witness ==
    /\ EvaluatedIn(op, AssignX)
    /\ "x" \notin DOMAIN envs[op.env].variables
    /\ Bound(envs, op.env, "x")
    /\ envs[Innermost(envs, op.env, "x")].variables["x"] = MakeNumber(2)

-----------------------------------------------------------------------------
(* C9 *)

\* C9: evaluating an Identifier never fails; it yields the innermost visible
\* binding of the name, and the undefined value when the name is bound in
\* neither the environment nor any ancestor.
C9_LookupNeverFails ==
    \A n \in {"x", "z"} :
        EvaluatedIn(op, Id(n)) =>
            /\ result.err = ""
            /\ result.val = IF Bound(envs, op.env, n)
                            THEN envs[Innermost(envs, op.env, n)].variables[n]
                            ELSE MakeUndefined

\* An unbound name was just looked up from a child environment.
C9_Witness ==
    /\ EvaluatedIn(op, Id("z"))
    /\ op.env # Root
    /\ ~Bound(envs, op.env, "z")
    /\ result = [val |-> MakeUndefined, err |-> ""]

-----------------------------------------------------------------------------
(* C10 *)

\* C10: every environment's parent is nil or an environment allocated before
\* it, so the walk of LookupVar / HasVar / AssignVar from any environment
\* reaches the nil parent of a root within as many steps as there are
\* environments; and no step removes an environment or changes a parent.
C10_AcyclicParents ==
    /\ [](\A e \in 1..Len(envs) :
              /\ envs[e].parent \in 0..(e - 1)
              /\ FindHolder(envs, e, "a name bound nowhere", Len(envs)) = NilEnv)
    /\ [][/\ Len(envs') >= Len(envs)
          /\ \A e \in 1..Len(envs) : envs'[e].parent = envs[e].parent]_vars

\* A chain of three: the environment of a for loop inside a call.
C10_Witness ==
    \E e \in 1..Len(envs) :
        /\ envs[e].parent # NilEnv
        /\ envs[envs[e].parent].parent # NilEnv

-----------------------------------------------------------------------------
(* C11 *)

\* C11: a parameter the call gives no argument for is bound to its default,
\* evaluated at the call in the environment the function was declared in
\* (f() is 10; a default naming an earlier parameter sees the name as the
\* declaration environment binds it, not the argument; a default naming k
\* sees the k of the declaration environment as it is at the call, not the
\* caller's k), or to undefined when it has no default; a default is not
\* evaluated when the argument is given (f(3) is 3, and a default that
\* assigns k leaves k alone).
C11_DefaultParameters ==
    [][/\ SrcRan(op', SrcDefaultUsed) => Returns(result', MakeNumber(10))
       /\ SrcRan(op', SrcDefaultUnused) => Returns(result', MakeNumber(3))
       /\ SrcRan(op', SrcDefaultSeesNoParam) =>
              Returns(result', LookupVar(envs, Root, "a"))
       /\ SrcRan(op', SrcNoDefault) => Returns(result', MakeUndefined)
       /\ SrcRan(op', SrcDefaultNotCallSite) => Returns(result', MakeNumber(1))
       /\ SrcRan(op', SrcDefaultNotRun) =>
              /\ Returns(result', MakeNumber(3))
              /\ LookupVar(envs', Root, "k") = LookupVar(envs, Root, "k")
       /\ SrcRan(op', SrcDefaultRun) =>
              /\ Returns(result', MakeNumber(9))
              /\ LookupVar(envs', Root, "k") = MakeNumber(9)]_vars

\* g(1) with a bound to 4 in the root: the default `a` of b gave 4, not the
\* argument 1.
C11_Witness ==
    /\ SrcRan(op, SrcDefaultSeesNoParam)
    /\ Returns(result, MakeNumber(4))

-----------------------------------------------------------------------------
(* C12 *)

StepSources == {SrcPostInc, SrcPostDec, SrcPreInc, SrcPreDec}

StepOf(src) == IF src \in {SrcPostInc, SrcPreInc} THEN 1 ELSE -1

\* What the step expression src evaluates to when x was bound to old.
StepValue(src, old) ==
    MakeNumber(IF src \in {SrcPostInc, SrcPostDec} THEN old.Value
               ELSE old.Value + StepOf(src))

\* The evaluation failed and changed no environment and no cell.
FailedWithoutEffect == result'.err # "" /\ envs' = envs /\ heap' = heap

\* C12 as stated: with x bound to a number n, x++ / x-- evaluate to n and
\* ++x / --x to n+1 / n-1, and the binding of x is updated in place to
\* n+1 / n-1, in the root or from a call whose chain reaches it; on a name
\* not bound to a number, a literal or a member expression the evaluation
\* fails and nothing changes.
C12_IncrementDecrement ==
    [][LET old == LookupVar(envs, Root, "x")
       IN  /\ \A src \in StepSources :
                  SrcRan(op', src) =>
                      IF old.tag = NUMBER_TYPE
                      THEN /\ Returns(result', StepValue(src, old))
                           /\ envs' = [envs EXCEPT ![Root].variables["x"] =
                                           MakeNumber(old.Value + StepOf(src))]
                      ELSE FailedWithoutEffect
           /\ SrcRan(op', SrcIncInCall) =>
                  IF old.tag = NUMBER_TYPE
                  THEN /\ Returns(result', old)
                       /\ envs'[Root].variables["x"] = MakeNumber(old.Value + 1)
                  ELSE /\ result'.err # ""
                       /\ LookupVar(envs', Root, "x") = old
           /\ SrcRan(op', SrcIncLiteral) => FailedWithoutEffect
           /\ SrcRan(op', SrcIncMember) => FailedWithoutEffect]_vars

\* C12, amended: the same, except that when x is marked constant in the
\* environment the expression is evaluated in, the expression still
\* evaluates to n (postfix) or n+1 / n-1 (prefix) but no binding changes.
C12_IncrementDecrementUnlessLocalConstant ==
    [][LET old == LookupVar(envs, Root, "x")
       IN  /\ \A src \in StepSources :
                  SrcRan(op', src) =>
                      IF old.tag = NUMBER_TYPE
                      THEN /\ Returns(result', StepValue(src, old))
                           /\ envs' = IF "x" \in envs[Root].constants THEN envs
                                      ELSE [envs EXCEPT ![Root].variables["x"] =
                                               MakeNumber(old.Value + StepOf(src))]
                      ELSE FailedWithoutEffect
           /\ SrcRan(op', SrcIncInCall) =>
                  IF old.tag = NUMBER_TYPE
                  THEN /\ Returns(result', old)
                       /\ envs'[Root].variables["x"] = MakeNumber(old.Value + 1)
                  ELSE /\ result'.err # ""
                       /\ LookupVar(envs', Root, "x") = old
           /\ SrcRan(op', SrcIncLiteral) => FailedWithoutEffect
           /\ SrcRan(op', SrcIncMember) => FailedWithoutEffect]_vars

\* x++ after x: var = (5): the expression gave 5 and x is now 6.
C12_Witness ==
    /\ SrcRan(op, SrcPostInc)
    /\ Returns(result, MakeNumber(5))
    /\ "x" \notin envs[Root].constants
    /\ envs[Root].variables["x"] = MakeNumber(6)

-----------------------------------------------------------------------------
(* C13 *)

\* The evaluation ended in an error value handed to the host.
ErrorValue(r) == r.err # "" /\ ~IsPanic(r.err)

\* C13: storing at an index at or past the length of the array bound to a
\* (`a[2] = 9` with a of length 2; `a = [1, 2]; a[5] = 9`) ends in an error
\* value, not a crash of the host, and the array keeps its length and its
\* elements.
C13_StorePastLengthIsError ==
    [][/\ SrcRan(op', SrcStoreAtLength) =>
              LET a == LookupVar(envs, Root, "a")
              IN  (a.tag = ARRAY_TYPE /\ Len(heap[a.ptr].Elements) <= 2) =>
                      /\ ErrorValue(result')
                      /\ heap'[a.ptr] = heap[a.ptr]
       /\ SrcRan(op', SrcStorePastLength) =>
              /\ ErrorValue(result')
              /\ LET a == LookupVar(envs', Root, "a")
                 IN  /\ a.tag = ARRAY_TYPE
                     /\ heap'[a.ptr].Elements = <<MakeNumber(1), MakeNumber(2)>>]_vars

-----------------------------------------------------------------------------
(* C14 *)

\* The kinds of the steps of an evaluation, in order.
Kinds(t) == [n \in 1..Len(t) |-> t[n].k]

\* The loop made exactly one environment, a child of the root, and its
\* declaration was evaluated in it.
OneLoopEnvironment ==
    /\ Len(envs') = Len(envs) + 1
    /\ envs'[Len(envs')].parent = Root
    /\ \A e \in 1..Len(envs) : envs'[e].parent = envs[e].parent
    /\ trace'[2].v.ptr = Len(envs')

\* A name the root did not bind before the loop is not bound there after.
NoLeak == \A n \in {"i", "j"} : ~Bound(envs, Root, n) => ~Bound(envs', Root, n)

\* C14: `for i = 0; i < 2; i = i + 1 { j = i }` makes one child
\* environment, evaluates its declaration once, then test, body, increment
\* twice and a last test; with `i = 3` as declaration there is the
\* declaration and one test and the body never runs; i, and j unless the
\* root already bound it, are bound in the loop's environment and not in
\* the root.
C14_ForStatement ==
    [][/\ SrcRan(op', SrcFor) =>
              /\ result'.err = ""
              /\ Kinds(trace') = <<"stmt", "decl", "test", "stmt", "incr",
                                   "test", "stmt", "incr", "test">>
              /\ OneLoopEnvironment
              /\ NoLeak
              /\ envs'[Len(envs')].variables["i"] = MakeNumber(2)
              /\ LookupVar(envs', Len(envs'), "j") = MakeNumber(1)
       /\ SrcRan(op', SrcForNever) =>
              /\ Returns(result', MakeVoid)
              /\ Kinds(trace') = <<"stmt", "decl", "test">>
              /\ OneLoopEnvironment
              /\ NoLeak
              /\ LookupVar(envs', Root, "j") = LookupVar(envs, Root, "j")]_vars

\* The loop ran twice in its own environment, which binds i and j; the root
\* binds neither.
C14_Witness ==
    /\ SrcRan(op, SrcFor)
    /\ envs[Len(envs)].parent = Root
    /\ DOMAIN envs[Len(envs)].variables = {"i", "j"}
    /\ ~Bound(envs, Root, "i")
    /\ ~Bound(envs, Root, "j")

-----------------------------------------------------------------------------
(* C15 *)

\* The evaluation made no environment and bound name to n in the root.
BoundInRoot(name, n) ==
    /\ Len(envs') = Len(envs)
    /\ name \in DOMAIN envs'[Root].variables
    /\ envs'[Root].variables[name] = MakeNumber(n)

\* C15: an if branch, an else branch and a while body run in the
\* environment of the statement: evaluated in the root they make no
\* environment and what they assign or declare is bound in the root, where
\* the statement after the if reads it; inside a call the only new
\* environment is the call's, and the name the if branch binds is read by
\* the return that follows the if.
C15_IfWhileReuseEnvironment ==
    [][/\ SrcRan(op', SrcIfThen) =>
              /\ Returns(result', MakeNumber(1))
              /\ BoundInRoot("p", 1)
       /\ SrcRan(op', SrcIfElse) =>
              /\ result'.err = ""
              /\ BoundInRoot("q", 2)
       /\ SrcRan(op', SrcWhile) =>
              /\ result'.err = ""
              /\ BoundInRoot("w", 2)
              /\ BoundInRoot("r", 2)
       /\ SrcRan(op', SrcIfInCall) =>
              /\ Returns(result', MakeNumber(1))
              /\ Len(envs') = Len(envs) + 1
              /\ envs'[Len(envs')].variables = ("m" :> MakeNumber(1))]_vars

\* The while body declared r in the root on each of its two iterations.
C15_Witness ==
    /\ SrcRan(op, SrcWhile)
    /\ Len(envs) = 1
    /\ envs[Root].variables["r"] = MakeNumber(2)
    /\ Cardinality({n \in 1..Len(trace) : trace[n].k = "test"}) = 3

-----------------------------------------------------------------------------
(* C16 *)

\* What a source text gives a freshly started interpreter.
Fresh(tokens) == LunaEvaluate(tokens, Root, <<RootEnv>>, <<>>)

\* The value of operand i on its own.
OperandValue(i) == Fresh(Tokens(Operands[i].pre \o Operands[i].expr)).val

\* Equality as the claim words it.
ShallowEqual(l, r) ==
    /\ l.tag = r.tag
    /\ l.tag \notin {ARRAY_TYPE, OBJECT_TYPE}
    /\ l.tag \in {NUMBER_TYPE, BOOLEAN_TYPE, STRING_TYPE} => l.Value = r.Value

\* C16: `l == r` is false for values of different tags, compares numbers,
\* booleans and strings by value, is true for null, undefined and void
\* with themselves, and is false for any two arrays or objects, the same one
\* twice included; `l != r` is its negation.
C16_ShallowEquality ==
    op.kind = "equality" =>
        LET l == OperandValue(op.line[1])
            r == OperandValue(op.line[2])
        IN  Returns(result, MakeBool(IF op.line[3] = "=="
                                     THEN ShallowEqual(l, r)
                                     ELSE ~ShallowEqual(l, r)))

\* `a = [1]; a == a` gave false, the array being the one cell both sides
\* denote.
C16_Witness ==
    /\ op.kind = "equality"
    /\ op.line = <<12, 12, "==">>
    /\ envs[Root].variables["a"] = ArrayValue(1)
    /\ heap = <<[Elements |-> <<MakeNumber(1)>>]>>
    /\ result = [val |-> MakeBool(FALSE), err |-> ""]

-----------------------------------------------------------------------------
(* C17 *)

\* C17: `1 + 2 * 3` parses with the product as the right operand of the
\* sum and evaluates to 7; `7 - 2 - 1` and `2 * 3 * 2 + 1 - 4` group to the
\* left and evaluate to 4 and 9.
C17_Precedence ==
    /\ SrcRan(op, SrcPrecedence) =>
           /\ ProduceAST(SrcPrecedence).node =
                  Program(<<BinaryExpr(Num(1), "+", BinaryExpr(Num(2), "*", Num(3)))>>)
           /\ Returns(result, MakeNumber(7))
    /\ SrcRan(op, SrcLeftAdditive) =>
           /\ ProduceAST(SrcLeftAdditive).node =
                  Program(<<BinaryExpr(BinaryExpr(Num(7), "-", Num(2)), "-", Num(1))>>)
           /\ Returns(result, MakeNumber(4))
    /\ SrcRan(op, SrcLeftMultiplicative) =>
           /\ ProduceAST(SrcLeftMultiplicative).node =
                  Program(<<BinaryExpr(
                              BinaryExpr(
                                BinaryExpr(BinaryExpr(Num(2), "*", Num(3)), "*", Num(2)),
                                "+", Num(1)),
                              "-", Num(4))>>)
           /\ Returns(result, MakeNumber(9))

\* `1 + 2 * 3` was evaluated as its second input and gave the host a number.
C17_Witness ==
    /\ SrcRan(op, SrcPrecedence)
    /\ lines = 2
    /\ result.val.tag = NUMBER_TYPE

-----------------------------------------------------------------------------
(* C18 *)

\* C18 as stated: `(1 + 2) * 3` evaluates to 21.
C18_ParenthesizedIs21 ==
    SrcRan(op, SrcParenthesized) => Returns(result, MakeNumber(21))

\* C18, amended: `(1 + 2) * 3` parses with the sum as the left operand of
\* the product and evaluates to 9.
C18_ParenthesizedIs9 ==
    SrcRan(op, SrcParenthesized) =>
        /\ ProduceAST(SrcParenthesized).node =
               Program(<<BinaryExpr(BinaryExpr(Num(1), "+", Num(2)), "*", Num(3))>>)
        /\ Returns(result, MakeNumber(9))

\* `(1 + 2) * 3` was evaluated and gave the host a number.
C18_Witness ==
    /\ SrcRan(op, SrcParenthesized)
    /\ result.err = ""
    /\ result.val.tag = NUMBER_TYPE

-----------------------------------------------------------------------------
(* C19 *)

\* The tree of a source text that is one statement.
OneStatement(stream) == ProduceAST(Tokens(stream)).node.Body[1]

\* C19: `if cond : stmt` parses without error into an IfStatement with
\* test cond and body [stmt], and `while cond : stmt` into such a
\* WhileStatement.
C19_ColonForm ==
    op.kind = "colon" =>
        LET keyword == IF op.line[1] = "if" THEN tIf ELSE tWhile
            ast == ProduceAST(ColonSource(keyword, op.line[2], op.line[3]))
            cond == OneStatement(Conditions[op.line[2]])
            stmt == OneStatement(Statements[op.line[3]])
        IN  /\ ast.err = ""
            /\ ast.node = Program(<<IF op.line[1] = "if"
                                    THEN IfStatement(cond, <<stmt>>, <<>>)
                                    ELSE WhileStatement(cond, <<stmt>>)>>)

-----------------------------------------------------------------------------
(* C20 *)

\* C20: `fn:: expr` and `lambda:: expr`, at the start of a statement and
\* inside an expression, parse to a call without arguments of an anonymous
\* function without parameters whose body is `return expr`, and evaluate to
\* the value of expr, never to a function.
C20_ImmediatelyInvoked ==
    op.kind = "invoked" =>
        LET keyword == IF op.line[1] = "fn" THEN tFn ELSE tLambda
            ast == ProduceAST(InvokedSource(keyword, op.line[2], op.line[3]))
            call == CallExpr(FunctionDeclaration("", <<>>,
                        <<ReturnExpr(OneStatement(Invoked[op.line[3]]))>>), <<>>)
        IN  /\ ast.err = ""
            /\ ast.node = Program(<<IF op.line[2]
                                    THEN AssignmentExpr(Id("r"), call)
                                    ELSE call>>)
            /\ Returns(result, Fresh(Tokens(Invoked[op.line[3]])).val)
            /\ result.val.tag # FUNCTION_TYPE

-----------------------------------------------------------------------------
(* C24: every node the parser emits is evaluated *)

\* C24: the evaluation of a program that parsed never fails with the
\* 'unsupported AST node' error of Evaluate's default case; a parse error
\* is another message.  `use "lib"` parses to a UseStatement, for which
\* Evaluate has no case.
C24_EveryNodeKindEvaluated ==
    op.kind = "node" =>
        (ProduceAST(Tokens(NodeKinds[op.line[1]])).err = ""
            => result.err # "unsupported AST node")

-----------------------------------------------------------------------------
(* C25: a string literal is an operand whatever its text *)

\* C25: a STRING token is parsed as a StringLiteral operand whatever its
\* text: `"t"` parses to that literal and `x = "t"` to the assignment of it,
\* and evaluation yields the string t and, in the assignment, binds x to it.
\* parseUnaryExpression and the additive loop compare the token's text with
\* `+` and `-`, so `x = "-"` does not parse.
C25_StringIsOperand ==
    op.kind = "string" =>
        LET text == StringTexts[op.line[1]]
            ast == ProduceAST(StringSource(op.line[1], op.line[2]))
        IN  /\ ast.err = ""
            /\ ast.node = Program(<<IF op.line[2]
                                    THEN AssignmentExpr(Id("x"), StringLiteral(text))
                                    ELSE StringLiteral(text)>>)
            /\ result = [val |-> MakeString(text), err |-> ""]
            /\ op.line[2] => envs[Root].variables["x"] = MakeString(text)

-----------------------------------------------------------------------------
(* C28: the constant marker is permanent *)

\* The step is a plain assignment `x = 2` in environment e, by Evaluate or by
\* the host's AssignVar.
PlainAssignmentIn(e) ==
    /\ op'.env = e
    /\ \/ op'.kind = "AssignVar"
       \/ EvaluatedIn(op', AssignmentExpr(Id("x"), Num(2)))

\* The step is `x: var = (n)` in environment e.
VarRedeclarationIn(e, n) ==
    /\ op'.env = e
    /\ EvaluatedIn(op', ActionAssignmentExpr(Id("x"), "var", Num(n)))

\* C28: once x is marked constant in an environment it stays marked through
\* every step; a `var` redeclaration there replaces the bound value and
\* keeps the marker, and every plain assignment to x there, before or after
\* the redeclaration, changes no binding.
C28_ConstantMarkerPermanent ==
    [][\A e \in 1..Len(envs) :
           "x" \in envs[e].constants =>
               /\ "x" \in envs'[e].constants
               /\ \A n \in {1, 3} :
                      VarRedeclarationIn(e, n) =>
                          envs'[e].variables["x"] = MakeNumber(n)
               /\ PlainAssignmentIn(e) =>
                      /\ envs' = envs
                      /\ result' = [val |-> MakeNumber(2), err |-> ""]]_vars

\* x was declared constant with 1 in an environment, redeclared there with
\* `x: var = (3)`, and the last step was a plain assignment there.
C28_Witness ==
    /\ op.kind = "AssignVar" \/ EvaluatedIn(op, AssignmentExpr(Id("x"), Num(2)))
    /\ "x" \in envs[op.env].constants
    /\ envs[op.env].variables["x"] = MakeNumber(3)

-----------------------------------------------------------------------------
(* C29: parameters shadow without touching outer scopes *)

\* The value the parameter a of f holds when the body b has run.
ShadowParameter(b, withArgument) ==
    CASE b = 1 -> IF withArgument THEN MakeNumber(5) ELSE MakeUndefined
      [] b = 3 -> MakeNumber(7)
      [] OTHER -> MakeNumber(9)

\* C29: with a bound to 1 in the enclosing environment (the root, as a
\* variable or a constant, or the call environment of an enclosing
\* function), a call of `fn f a { body }` binds its parameter in a new
\* child of that environment; binding the parameter, assigning to it and
\* declaring it again in the body change that child only, and the enclosing
\* a is 1 when the call is over.
C29_ParametersShadow ==
    op.kind = "shadow" =>
        LET outer == op.line[1]
            holder == IF outer = "parameter" THEN Root + 1 ELSE Root
            callEnv == holder + 1
        IN  /\ result.err = ""
            /\ Len(envs) = callEnv
            /\ envs[holder].variables["a"] = MakeNumber(1)
            /\ ("a" \in envs[holder].constants) = (outer = "const")
            /\ outer = "parameter" =>
                   /\ Returns(result, MakeNumber(1))
                   /\ "a" \notin DOMAIN envs[Root].variables
            /\ envs[callEnv].parent = holder
            /\ envs[callEnv].variables["a"] = ShadowParameter(op.line[2], op.line[3])

\* The enclosing a is a root constant and the body of f assigned 9 to the
\* parameter a.
C29_Witness ==
    /\ op.kind = "shadow"
    /\ op.line = <<"const", 2, TRUE>>
    /\ envs[Root].variables["a"] = MakeNumber(1)
    /\ envs[Root + 1].variables["a"] = MakeNumber(9)

-----------------------------------------------------------------------------
(* C27: the `call` method against the direct call *)

\* C27: for a function g of n parameters and n arguments, `g.call(args)`
\* and `g(args)` give the same value or failure and leave the same
\* environments and heap.  The `call` prototype keeps only the value of a
\* return statement, so for `fn g a { a + 1 }` it gives void where the
\* direct call gives 2.
C27_CallMethodIsDirectCall ==
    op.kind = "call" =>
        LET other == Fresh(CallSource(op.line[1], ~op.line[2]))
        IN  /\ result = [val |-> other.val, err |-> other.err]
            /\ envs = other.st.envs
            /\ heap = other.st.heap

-----------------------------------------------------------------------------
(* C22: one end-of-stream token, at the end of the input *)

Tokenized(o) == o.kind = "tokenize"

\* C22: a tokenization that succeeds returns at least one token; its last
\* token is EOF, no token before it is EOF, and the EOF token's Index is the
\* number of characters of the input.
C22_OneEOFAtEnd ==
    (Tokenized(op) /\ result.err = "") =>
        LET tokens == result.val
        IN  /\ Len(tokens) >= 1
            /\ tokens[Len(tokens)].Type = "EOF"
            /\ \A n \in 1..(Len(tokens) - 1) : tokens[n].Type # "EOF"
            /\ tokens[Len(tokens)].Position.Index = Len(op.line)

\* `if=1`: three tokens and then EOF at offset 4.
C22_Witness ==
    /\ Tokenized(op)
    /\ op.line = <<"i", "f", "=", "1">>
    /\ result.err = ""
    /\ Len(result.val) = 4
    /\ result.val[1].Type = "IF"
    /\ result.val[4] = PositionedToken("EOF", "", [Line |-> 0, Column |-> 4, Index |-> 4])

-----------------------------------------------------------------------------
(* C23: Tokenize terminates *)

HelperLoops == {"comment", "string", "number", "identifier", "operator"}

\* C23: Tokenize returns on every text.  The iterations of its loop follow
\* one another from position 0; every iteration moves the position forward,
\* except a last one that returns the 'unexpected character' error; every
\* iteration that runs a helper loop (comment, string, number, identifier,
\* operator) consumes at least one character, also when the string helper
\* ends in an error; so there are at most as many iterations as characters,
\* and a tokenization that succeeds ends at the end of the text.
C23_TokenizeTerminates ==
    Tokenized(op) =>
        /\ result.err # TokenizeDiverged
        /\ Len(trace) <= Len(op.line)
        /\ \A n \in 1..Len(trace) :
               /\ trace[n].from = (IF n = 1 THEN 0 ELSE trace[n - 1].to)
               /\ trace[n].to <= Len(op.line)
               /\ \/ trace[n].to > trace[n].from
                  \/ /\ n = Len(trace)
                     /\ result.err = "unexpected character"
                     /\ trace[n].k \notin HelperLoops
        /\ result.err = "" =>
               (IF trace = <<>> THEN 0 ELSE trace[Len(trace)].to) = Len(op.line)

\* A text with a comment, a line end, an operator and an open string, read
\* in four iterations.
C23_Witness ==
    /\ Tokenized(op)
    /\ op.line = <<"#", "\n", "=", "\"">>
    /\ result.err = "unterminated string"
    /\ trace = <<[k |-> "comment", from |-> 0, to |-> 1],
                 [k |-> "newline", from |-> 1, to |-> 2],
                 [k |-> "operator", from |-> 2, to |-> 3],
                 [k |-> "string", from |-> 3, to |-> 4]>>

-----------------------------------------------------------------------------
(* C26: white space between adjacent operators *)

\* The kinds and texts of a token stream, without the positions.
KindsAndTexts(tokens) ==
    [n \in 1..Len(tokens) |-> Token(tokens[n].Type, tokens[n].Value)]

\* The text with a space put after its i-th character.
Spaced(input, i) ==
    SubSeq(input, 1, i) \o <<" ">> \o SubSeq(input, i + 1, Len(input))

\* C26: where an `=` that starts an operator is directly followed by a `-`
\* that is not followed by another operator character, putting a space
\* between the two changes neither the kinds and texts of the tokens nor
\* the error.  readOperator gathers `=-` into one token, so `i=-1` gives
\* IDENTIFIER, BINARY_OPERATOR `=-`, INT where `i= -1` gives IDENTIFIER,
\* EQUALS, BINARY_OPERATOR `-`, INT.
C26_SpaceBetweenOperators ==
    Tokenized(op) =>
        \A i \in 1..(Len(op.line) - 1) :
            (/\ op.line[i] = "="
             /\ op.line[i + 1] = "-"
             /\ \E n \in 1..Len(trace) :
                    trace[n].k = "operator" /\ trace[n].from = i - 1
             /\ i + 2 <= Len(op.line) => ~isOperator(op.line[i + 2]))
            => LET spaced == Tokenize(Spaced(op.line, i))
               IN  /\ spaced.err = result.err
                   /\ KindsAndTexts(spaced.tokens) = KindsAndTexts(result.val)

-----------------------------------------------------------------------------
(* C30: token columns *)

\* The offset of the first character of the line of the n-th token: the
\* offset after the last NEWLINE token before it, 0 on the first line.
LineStart(tokens, n) ==
    LET newlines == {m \in 1..(n - 1) : tokens[m].Type = "NEWLINE"}
    IN  IF newlines = {} THEN 0
        ELSE tokens[CHOOSE m \in newlines : \A l \in newlines : l <= m]
                 .Position.Index + 1

\* C30: in a tokenization that succeeds, the Line of every token is the
\* number of NEWLINE tokens before it and its Column is its Index minus the
\* offset of the first character of its line.  After a newline Tokenize
\* sets index to 0 and then advances, so a token at the start of the second
\* line has Column 1 where one at the start of the first has Column 0.
C30_ColumnsConsistent ==
    (Tokenized(op) /\ result.err = "") =>
        \A n \in 1..Len(result.val) :
            LET token == result.val[n]
            IN  /\ token.Position.Line =
                       Cardinality({m \in 1..(n - 1) :
                                       result.val[m].Type = "NEWLINE"})
                /\ token.Position.Column =
                       token.Position.Index - LineStart(result.val, n)

-----------------------------------------------------------------------------
(* C21: evaluation is deterministic *)

\* C21: a program that calls no native function, evaluated again from the
\* same bindings, gives the same value or failure and the same final
\* environments and heap, whatever order the second run's map ranges take;
\* this includes programs with string literals that contain `{`.
\* evaluateStringLiteral replaces the placeholders in the order of a range
\* over env.variables, so with a = "{b}" and b = "x" the literal "{a}" is
\* "x" when a is visited first and "{b}" when b is.
C21_Deterministic ==
    op.kind = "interpolate" =>
        \A order \in MapOrders :
            LET again == LunaEvaluateOrdered(Tokens(Interpolations[op.line[1]]),
                                             Root, <<RootEnv>>, <<>>, order)
            IN  /\ result = [val |-> again.val, err |-> again.err]
                /\ envs = again.st.envs
                /\ heap = again.st.heap

====
